---------------------------- MODULE Spec2Model ----------------------------
(*
  irctest: the test drivers of irctest/cases.py: the client-side driver
  (BaseClientTestCase and ClientNegociationHelper), the server-side driver
  (BaseServerTestCase) and the message comparison of _IrcTestCase.

  The test thread is single-threaded and blocks only inside getLine; the
  peer (the IRC client under test) writes whole CRLF-terminated lines to
  the socket at any time.  Strings are sequences of one-character strings,
  so that endswith, split, join and slicing are computed, not assumed.
*)
EXTENDS Integers, Sequences, FiniteSets, TLC

\* ------------------------------------------------------------------
\* Bounds of the model
\* ------------------------------------------------------------------
MaxLines == 3       \* lines the peer writes during one test
MaxAhead == 2       \* lines the peer may be ahead of the reader
MaxCalls == 2       \* helper calls the test body makes
MaxConns == 3       \* connections a server test opens
MaxServerCalls == 4 \* calls the body of a server test makes

\* ------------------------------------------------------------------
\* Python values: None / optional values
\* ------------------------------------------------------------------
None == << >>
Some(x) == << x >>
IsNone(o) == o = << >>
Val(o) == o[1]

\* ------------------------------------------------------------------
\* Strings as character sequences
\* ------------------------------------------------------------------
CRLF == << "\r", "\n" >>
SP == << " " >>
Whitespace == { " ", "\t", "\r", "\n" }

RECURSIVE Rep(_, _)
Rep(c, n) == IF n = 0 THEN << >> ELSE << c >> \o Rep(c, n - 1)

\* str.endswith / str.startswith
endswith(s, suf) ==
    /\ Len(s) >= Len(suf)
    /\ SubSeq(s, Len(s) - Len(suf) + 1, Len(s)) = suf

startswith(s, pre) ==
    /\ Len(s) >= Len(pre)
    /\ SubSeq(s, 1, Len(pre)) = pre

\* s[0:n]
Slice0(s, n) == SubSeq(s, 1, IF Len(s) < n THEN Len(s) ELSE n)

\* index of the first c in s at or after i, 0 when there is none
RECURSIVE IndexFrom(_, _, _)
IndexFrom(s, c, i) ==
    IF i > Len(s) THEN 0
    ELSE IF s[i] = c THEN i
    ELSE IndexFrom(s, c, i + 1)

\* index of the first c in s, 0 when there is none
IndexOf(s, c) == IndexFrom(s, c, 1)

\* str.split() with no argument: the maximal runs of non-whitespace
RECURSIVE split(_)
split(s) ==
    IF s = << >> THEN << >>
    ELSE IF s[1] \in Whitespace THEN split(Tail(s))
    ELSE LET ends == { i \in 1..Len(s) : s[i] \in Whitespace }
             e == IF ends = {} THEN Len(s) + 1
                  ELSE CHOOSE i \in ends : \A j \in ends : i <= j
         IN  << SubSeq(s, 1, e - 1) >> \o split(SubSeq(s, e, Len(s)))

\* str.split(c): the pieces between occurrences of c, empty ones kept
RECURSIVE splitOn(_, _)
splitOn(s, c) ==
    LET i == IndexOf(s, c)
    IN  IF i = 0 THEN << s >>
        ELSE << SubSeq(s, 1, i - 1) >> \o splitOn(SubSeq(s, i + 1, Len(s)), c)

\* ' '.join(l)
RECURSIVE join(_)
join(l) ==
    IF l = << >> THEN << >>
    ELSE IF Len(l) = 1 THEN l[1]
    ELSE l[1] \o SP \o join(Tail(l))

\* frozenset(list)
Range(l) == { l[i] : i \in 1..Len(l) }

\* ------------------------------------------------------------------
\* irc_utils.message_parser (section 4.1 of the specification)
\* ------------------------------------------------------------------
Message(tags, prefix, command, params) ==
    [ tags |-> tags, prefix |-> prefix, command |-> command, params |-> params ]

EmptyTags == << >>

\* the transport's terminator, CRLF or a bare LF, is not part of the message
StripEol(s) ==
    IF endswith(s, CRLF) THEN SubSeq(s, 1, Len(s) - 2)
    ELSE IF endswith(s, << "\n" >>) THEN SubSeq(s, 1, Len(s) - 1)
    ELSE s

RECURSIVE DropSpaces(_)
DropSpaces(s) ==
    IF s # << >> /\ s[1] = " " THEN DropSpaces(Tail(s)) ELSE s

\* IRCv3 tag value unescaping: \: ; \s space, \\ backslash, \r CR, \n LF,
\* a lone trailing backslash is dropped
RECURSIVE unescape_tag_value(_)
unescape_tag_value(v) ==
    IF v = << >> THEN << >>
    ELSE IF v[1] # "\\" THEN << v[1] >> \o unescape_tag_value(Tail(v))
    ELSE IF Len(v) = 1 THEN << >>
    ELSE LET c == v[2]
             u == CASE c = ":" -> ";"
                    [] c = "s" -> " "
                    [] c = "\\" -> "\\"
                    [] c = "r" -> "\r"
                    [] c = "n" -> "\n"
                    [] OTHER -> c
         IN  << u >> \o unescape_tag_value(SubSeq(v, 3, Len(v)))

\* the text before the first space of s, and the text from that space on
Word(s) == IF IndexOf(s, " ") = 0 THEN s ELSE SubSeq(s, 1, IndexOf(s, " ") - 1)
AfterWord(s) == IF IndexOf(s, " ") = 0 THEN << >> ELSE SubSeq(s, IndexOf(s, " "), Len(s))

tag_key(it) == IF IndexOf(it, "=") = 0 THEN it ELSE SubSeq(it, 1, IndexOf(it, "=") - 1)
tag_value(it) ==
    IF IndexOf(it, "=") = 0 THEN << >>
    ELSE unescape_tag_value(SubSeq(it, IndexOf(it, "=") + 1, Len(it)))

\* the tags of the entries items: key -> value, a later key wins
tags_of(items) ==
    [ k \in { tag_key(items[i]) : i \in { j \in 1..Len(items) : items[j] # << >> } } |->
        tag_value(items[CHOOSE i \in 1..Len(items) :
                            /\ tag_key(items[i]) = k
                            /\ \A j \in 1..Len(items) : tag_key(items[j]) = k => j <= i]) ]

\* the tag block without its leading @
parse_tags(block) == tags_of(splitOn(block, ";"))

\* parameters: space separated, no empty ones, and a parameter that starts
\* with ':' takes the rest of the line verbatim
RECURSIVE parse_params(_)
parse_params(s) ==
    IF DropSpaces(s) = << >> THEN << >>
    ELSE IF DropSpaces(s)[1] = ":" THEN << Tail(DropSpaces(s)) >>
    ELSE << Word(DropSpaces(s)) >> \o parse_params(AfterWord(DropSpaces(s)))

ParseError == [ ok |-> FALSE ]

\* the command and the parameters; the command must not be empty
parse_command(tags, prefix, s) ==
    IF Word(s) = << >> THEN ParseError
    ELSE [ ok |-> TRUE,
           msg |-> Message(tags, prefix, Word(s), parse_params(AfterWord(s))) ]

\* the optional :prefix, after the tags
parse_prefix(tags, s) ==
    IF s # << >> /\ s[1] = ":"
    THEN parse_command(tags, Some(Word(Tail(s))), DropSpaces(AfterWord(s)))
    ELSE parse_command(tags, None, s)

\* the optional @tags block
parse_line(s) ==
    IF s # << >> /\ s[1] = "@"
    THEN parse_prefix(parse_tags(Word(Tail(s))), DropSpaces(AfterWord(s)))
    ELSE parse_prefix(EmptyTags, DropSpaces(s))

parse_message(line) == parse_line(StripEol(line))

\* ------------------------------------------------------------------
\* irc_utils.capabilities
\* ------------------------------------------------------------------
\* name -> value of each advertised token "name" or "name=value"
cap_list_to_dict(caps) ==
    LET name(c) == LET i == IndexOf(c, "=")
                   IN  IF i = 0 THEN c ELSE SubSeq(c, 1, i - 1)
        value(c) == LET i == IndexOf(c, "=")
                    IN  IF i = 0 THEN None ELSE Some(SubSeq(c, i + 1, Len(c)))
        names == { name(caps[i]) : i \in 1..Len(caps) }
        last(n) == CHOOSE i \in 1..Len(caps) :
                      /\ name(caps[i]) = n
                      /\ \A j \in 1..Len(caps) : name(caps[j]) = n => j <= i
    IN  [ n \in names |-> value(caps[last(n)]) ]

\* ------------------------------------------------------------------
\* String literals of the source and of the tests
\* ------------------------------------------------------------------
S_CAP == << "C", "A", "P" >>
S_LS == << "L", "S" >>
S_302 == << "3", "0", "2" >>
S_END == << "E", "N", "D" >>
S_REQ == << "R", "E", "Q" >>
S_ACK == << "A", "C", "K" >>
S_NAK == << "N", "A", "K" >>
S_NICK == << "N", "I", "C", "K" >>
S_USER == << "U", "S", "E", "R" >>
S_PING == << "P", "I", "N", "G" >>
S_STAR == << "*" >>
S_sasl == << "s", "a", "s", "l" >>
S_sasl_PLAIN == << "s", "a", "s", "l", "=", "P", "L", "A", "I", "N" >>
S_message_tags == << "m", "e", "s", "s", "a", "g", "e", "-", "t", "a", "g", "s" >>
S_unknown_cap == << "u", "n", "k", "n", "o", "w", "n", "-", "c", "a", "p" >>
S_foo == << "f", "o", "o" >>
S_x == << "x" >>

S_R_n == << "R", " ", "n" >>
S_u == << "u" >>
COLON == << ":" >>

\* what an attribute that was never assigned holds
NoAttribute == << "no", "attribute" >>

\* ------------------------------------------------------------------
\* The lines the peer (the client under test) may write
\* ------------------------------------------------------------------
L_CAP_LS == S_CAP \o SP \o S_LS \o CRLF
L_CAP_LS_302 == S_CAP \o SP \o S_LS \o SP \o S_302 \o CRLF
L_CAP_END == S_CAP \o SP \o S_END \o CRLF
L_REQ_both == S_CAP \o SP \o S_REQ \o SP \o COLON \o S_sasl \o SP \o S_message_tags \o CRLF
L_REQ_unknown == S_CAP \o SP \o S_REQ \o SP \o COLON \o S_sasl \o SP \o S_unknown_cap \o CRLF
L_REQ_long == S_CAP \o SP \o S_REQ \o SP \o COLON \o S_sasl \o SP \o Rep("x", 100) \o CRLF
L_NICK == S_NICK \o SP \o S_foo \o CRLF
L_USER == S_USER \o SP \o S_u \o SP \o S_STAR \o SP \o S_STAR \o SP \o COLON \o S_R_n \o CRLF
L_PING == S_PING \o SP \o S_x \o CRLF
L_CAP_bare == S_CAP \o CRLF
L_REQ_bare == S_CAP \o SP \o S_REQ \o CRLF
L_REQ_three == S_CAP \o SP \o S_REQ \o SP \o S_sasl \o SP \o S_message_tags \o CRLF
L_NICK_two == S_NICK \o SP \o S_foo \o SP \o S_x \o CRLF
\* a prefix and no command: the parser rejects it
L_prefix_only == COLON \o S_foo \o CRLF
\* a NICK whose one parameter is the empty string
L_NICK_empty == S_NICK \o SP \o COLON \o CRLF

PeerLines ==
    { L_CAP_LS, L_CAP_LS_302, L_CAP_END, L_REQ_both, L_REQ_unknown, L_REQ_long,
      L_NICK, L_USER, L_PING, L_CAP_bare, L_REQ_bare, L_REQ_three, L_NICK_two,
      L_prefix_only, L_NICK_empty }

\* the capability lists the tests advertise
CapsChoices == { << >>, << S_sasl_PLAIN, S_message_tags >> }

\* the texts a test body hands to sendLine
SendTexts ==
    { S_PING \o SP \o S_x,
      S_PING \o SP \o S_x \o CRLF,
      S_x \o << "\r" >>,
      << >> }

\* ------------------------------------------------------------------
\* State
\* ------------------------------------------------------------------
VARIABLES
    pc,                  \* where the test thread is
    conn_file,           \* lines received and not yet read by getLine
    wire,                \* the bytes written to self.conn so far
    protocol_version,    \* self.protocol_version
    nick,                \* self.nick
    user,                \* self.user
    acked_capabilities,  \* self.acked_capabilities
    capability_names,    \* local of negotiateCapabilities
    call,                \* the helper call in progress, or the last one
    ret,                 \* what the last call returned
    err,                 \* the exception that ended the test, if any
    arrived,             \* history: every line the peer wrote, in order
    sendLog,             \* history: every sendLine call, in order
    ncalls,              \* history: helper calls made by the test body
    readBase,            \* history: lines read before the current call
    sendBase,            \* history: sendLine calls before the current call
    msgBase,             \* history: lines read before the current getMessage
    predCalls,           \* history: predicate calls of the current getMessage
    eof,                 \* the peer has closed its end of self.conn
    clients,             \* BaseServerTestCase: self.clients, name -> connection
    conns,               \* every connection a ClientMock has opened, in order
    config,              \* GossipController: self._config
    config_file          \* GossipController: what the file at _config_path holds

\* the state of the server-side driver
svars == << clients, conns >>

vars == << pc, conn_file, wire, protocol_version, nick, user,
           acked_capabilities, capability_names, call, ret, err, arrived,
           sendLog, ncalls, readBase, sendBase, msgBase, predCalls, eof,
           clients, conns, config, config_file >>

\* the state of the controller
controllerVars == << config, config_file >>

\* lines consumed from the connection so far
NRead == Len(arrived) - Len(conn_file)

\* ------------------------------------------------------------------
\* BaseClientTestCase
\* ------------------------------------------------------------------
\* a sendLine that appends CRLF whatever the line ends with
sendLineBytes_always(line) == line \o CRLF

\* sendLine: the bytes of its one or two sendall calls
sendLineBytes(line) ==
    line \o (IF ~endswith(line, CRLF) THEN CRLF ELSE << >>)

\* the test as getMessage's docstring words it: stop when the predicate
\* returns False
accepts_docstring(filter_pred, predResult) ==
    IsNone(filter_pred) \/ ~predResult

\* getMessage's test `not filter_pred or filter_pred(msg)`; predResult is
\* what the predicate returned on the message
accepts(filter_pred, predResult) ==
    IsNone(filter_pred) \/ predResult

\* ------------------------------------------------------------------
\* ClientNegociationHelper
\* ------------------------------------------------------------------
\* a readCapLs that knows no 'LS 302'
readCapLs_no302(m) ==
    IF m.command # S_CAP
    THEN [ raised |-> TRUE, protocol_version |-> NoAttribute ]
    ELSE IF m.params = << S_LS >>
    THEN [ raised |-> FALSE, protocol_version |-> Some(301) ]
    ELSE IF m.params = << S_END >>
    THEN [ raised |-> FALSE, protocol_version |-> None ]
    ELSE [ raised |-> TRUE, protocol_version |-> NoAttribute ]

\* readCapLs, from the first message m on
readCapLs(m) ==
    IF m.command # S_CAP
    THEN [ raised |-> TRUE, protocol_version |-> NoAttribute ]
    ELSE IF m.params = << S_LS >>
    THEN [ raised |-> FALSE, protocol_version |-> Some(301) ]
    ELSE IF m.params = << S_LS, S_302 >>
    THEN [ raised |-> FALSE, protocol_version |-> Some(302) ]
    ELSE IF m.params = << S_END >>
    THEN [ raised |-> FALSE, protocol_version |-> None ]
    ELSE [ raised |-> TRUE, protocol_version |-> NoAttribute ]

\* a negotiateCapabilities that goes on after CAP END
noNegotiation_never(pv) == FALSE

\* negotiateCapabilities' test `not self.protocol_version` after readCapLs
noNegotiation(pv) == IsNone(pv)

\* a userNickPredicate that records USER but does not filter it
userNickPredicate_userPasses(msg, n, u) ==
    IF msg.command = S_NICK
    THEN IF Len(msg.params) # 1
         THEN [ raised |-> TRUE, result |-> FALSE, nick |-> n, user |-> u ]
         ELSE [ raised |-> FALSE, result |-> FALSE,
                nick |-> Some(msg.params[1]), user |-> u ]
    ELSE IF msg.command = S_USER
    THEN IF Len(msg.params) # 4
         THEN [ raised |-> TRUE, result |-> FALSE, nick |-> n, user |-> u ]
         ELSE [ raised |-> FALSE, result |-> TRUE,
                nick |-> n, user |-> Some(msg.params) ]
    ELSE [ raised |-> FALSE, result |-> TRUE, nick |-> n, user |-> u ]

\* userNickPredicate on msg, with self.nick = n and self.user = u
userNickPredicate(msg, n, u) ==
    IF msg.command = S_NICK
    THEN IF Len(msg.params) # 1
         THEN [ raised |-> TRUE, result |-> FALSE, nick |-> n, user |-> u ]
         ELSE [ raised |-> FALSE, result |-> FALSE,
                nick |-> Some(msg.params[1]), user |-> u ]
    ELSE IF msg.command = S_USER
    THEN IF Len(msg.params) # 4
         THEN [ raised |-> TRUE, result |-> FALSE, nick |-> n, user |-> u ]
         ELSE [ raised |-> FALSE, result |-> FALSE,
                nick |-> n, user |-> Some(msg.params) ]
    ELSE [ raised |-> FALSE, result |-> TRUE, nick |-> n, user |-> u ]

\* a filtered getMessage that skips the message its predicate accepts
getMessageFiltered_skips(msg, filter_pred, r, called) ==
    IF r.raised
    THEN [ kind |-> "raise", err |-> "AssertionError", msg |-> None,
           nick |-> r.nick, user |-> r.user, called |-> called ]
    ELSE IF IsNone(filter_pred) \/ ~r.result
    THEN [ kind |-> "return", err |-> "", msg |-> Some(msg),
           nick |-> r.nick, user |-> r.user, called |-> called ]
    ELSE [ kind |-> "continue", err |-> "", msg |-> None,
           nick |-> r.nick, user |-> r.user, called |-> called ]

\* getMessage's loop body once the predicate, if any, has been called on the
\* parsed message and has answered r
getMessageFiltered(msg, filter_pred, r, called) ==
    IF r.raised
    THEN [ kind |-> "raise", err |-> "AssertionError", msg |-> None,
           nick |-> r.nick, user |-> r.user, called |-> called ]
    ELSE IF accepts(filter_pred, r.result)
    THEN [ kind |-> "return", err |-> "", msg |-> Some(msg),
           nick |-> r.nick, user |-> r.user, called |-> called ]
    ELSE [ kind |-> "continue", err |-> "", msg |-> None,
           nick |-> r.nick, user |-> r.user, called |-> called ]

\* a getMessage that reads on after a line that does not parse
getMessageParsed_skipsGarbage(p, filter_pred, n, u) ==
    IF ~p.ok
    THEN [ kind |-> "continue", err |-> "", msg |-> None,
           nick |-> n, user |-> u, called |-> 0 ]
    ELSE IF IsNone(filter_pred)
    THEN getMessageFiltered(p.msg, filter_pred,
             [ raised |-> FALSE, result |-> FALSE, nick |-> n, user |-> u ], 0)
    ELSE getMessageFiltered(p.msg, filter_pred,
             userNickPredicate(p.msg, n, u), 1)

\* getMessage's loop body on the result p of parse_message
getMessageParsed(p, filter_pred, n, u) ==
    IF ~p.ok
    THEN [ kind |-> "raise", err |-> "ParseError", msg |-> None,
           nick |-> n, user |-> u, called |-> 0 ]
    ELSE IF IsNone(filter_pred)
    THEN getMessageFiltered(p.msg, filter_pred,
             [ raised |-> FALSE, result |-> FALSE, nick |-> n, user |-> u ], 0)
    ELSE getMessageFiltered(p.msg, filter_pred,
             userNickPredicate(p.msg, n, u), 1)

\* a getMessage that never calls its predicate
getMessage_ignoresFilter(line, filter_pred, n, u) ==
    getMessageParsed(parse_message(line), None, n, u)

\* one turn of getMessage's loop on the line just read; filter_pred is None
\* or Some("userNickPredicate")
getMessage(line, filter_pred, n, u) ==
    getMessageParsed(parse_message(line), filter_pred, n, u)

\* a target that is always '*'
nickOrStar_star(n) == S_STAR

\* self.nick or '*'
nickOrStar(n) == IF IsNone(n) \/ Val(n) = << >> THEN S_STAR ELSE Val(n)

\* the line negotiateCapabilities advertises the capabilities with
capLsLine(caps) ==
    S_CAP \o SP \o S_STAR \o SP \o S_LS \o SP \o COLON \o join(caps)

\* the reply to a CAP REQ whose names string is names
\* a reply that acknowledges on the wire only
reqReplyTo_noUpdate(requested, names, capNames, n, acked) ==
    IF ~(requested \subseteq capNames)
    THEN [ sent |-> S_CAP \o SP \o nickOrStar(n) \o SP \o S_NAK \o SP
                      \o COLON \o Slice0(names, 100),
           acked |-> acked ]
    ELSE [ sent |-> S_CAP \o SP \o nickOrStar(n) \o SP \o S_ACK \o SP
                      \o COLON \o names,
           acked |-> acked ]

\* a reply that records the advertised names of a refused request
reqReplyTo_partial(requested, names, capNames, n, acked) ==
    IF ~(requested \subseteq capNames)
    THEN [ sent |-> S_CAP \o SP \o nickOrStar(n) \o SP \o S_NAK \o SP
                      \o COLON \o Slice0(names, 100),
           acked |-> acked \cup (requested \cap capNames) ]
    ELSE [ sent |-> S_CAP \o SP \o nickOrStar(n) \o SP \o S_ACK \o SP
                      \o COLON \o names,
           acked |-> acked \cup requested ]

\* a reply that records the names of a refused request too
reqReplyTo_recordsRefused(requested, names, capNames, n, acked) ==
    IF ~(requested \subseteq capNames)
    THEN [ sent |-> S_CAP \o SP \o nickOrStar(n) \o SP \o S_NAK \o SP
                      \o COLON \o Slice0(names, 100),
           acked |-> acked \cup requested ]
    ELSE [ sent |-> S_CAP \o SP \o nickOrStar(n) \o SP \o S_ACK \o SP
                      \o COLON \o names,
           acked |-> acked \cup requested ]

\* the reply to a CAP REQ that asks for requested, spelled names
reqReplyTo(requested, names, capNames, n, acked) ==
    IF ~(requested \subseteq capNames)
    THEN [ sent |-> S_CAP \o SP \o nickOrStar(n) \o SP \o S_NAK \o SP
                      \o COLON \o Slice0(names, 100),
           acked |-> acked ]
    ELSE [ sent |-> S_CAP \o SP \o nickOrStar(n) \o SP \o S_ACK \o SP
                      \o COLON \o names,
           acked |-> acked \cup requested ]

reqReply(names, capNames, n, acked) ==
    reqReplyTo(Range(split(names)), names, capNames, n, acked)

\* a loop body that consumes a CAP that is no REQ, such as CAP END
negotiateStep_swallowsEnd(m, capNames, n, acked) ==
    IF m.command # S_CAP
    THEN [ kind |-> "return", sent |-> << >>, acked |-> acked ]
    ELSE IF ~(Len(m.params) > 0)
    THEN [ kind |-> "raise", sent |-> << >>, acked |-> acked ]
    ELSE IF m.params[1] = S_REQ
    THEN IF Len(m.params) # 2
         THEN [ kind |-> "raise", sent |-> << >>, acked |-> acked ]
         ELSE [ kind |-> "continue",
                sent |-> << reqReply(m.params[2], capNames, n, acked).sent >>,
                acked |-> reqReply(m.params[2], capNames, n, acked).acked ]
    ELSE [ kind |-> "continue", sent |-> << >>, acked |-> acked ]

\* a loop body that does not check the parameter count of a REQ
negotiateStep_anyReq(m, capNames, n, acked) ==
    IF m.command # S_CAP
    THEN [ kind |-> "return", sent |-> << >>, acked |-> acked ]
    ELSE IF ~(Len(m.params) > 0)
    THEN [ kind |-> "raise", sent |-> << >>, acked |-> acked ]
    ELSE IF m.params[1] = S_REQ
    THEN IF Len(m.params) < 2
         THEN [ kind |-> "raise", sent |-> << >>, acked |-> acked ]
         ELSE [ kind |-> "continue",
                sent |-> << reqReply(m.params[2], capNames, n, acked).sent >>,
                acked |-> reqReply(m.params[2], capNames, n, acked).acked ]
    ELSE [ kind |-> "return", sent |-> << >>, acked |-> acked ]

\* a loop body that leaves a REQ it refuses without a reply
negotiateStep_silentNak(m, capNames, n, acked) ==
    IF m.command # S_CAP
    THEN [ kind |-> "return", sent |-> << >>, acked |-> acked ]
    ELSE IF ~(Len(m.params) > 0)
    THEN [ kind |-> "raise", sent |-> << >>, acked |-> acked ]
    ELSE IF m.params[1] = S_REQ
    THEN IF Len(m.params) # 2
         THEN [ kind |-> "raise", sent |-> << >>, acked |-> acked ]
         ELSE IF Range(split(m.params[2])) \subseteq capNames
         THEN [ kind |-> "continue",
                sent |-> << reqReply(m.params[2], capNames, n, acked).sent >>,
                acked |-> reqReply(m.params[2], capNames, n, acked).acked ]
         ELSE [ kind |-> "continue", sent |-> << >>, acked |-> acked ]
    ELSE [ kind |-> "return", sent |-> << >>, acked |-> acked ]

\* the body of negotiateCapabilities' loop on the message m that getMessage
\* returned
negotiateStep(m, capNames, n, acked) ==
    IF m.command # S_CAP
    THEN [ kind |-> "return", sent |-> << >>, acked |-> acked ]
    ELSE IF ~(Len(m.params) > 0)
    THEN [ kind |-> "raise", sent |-> << >>, acked |-> acked ]
    ELSE IF m.params[1] = S_REQ
    THEN IF Len(m.params) # 2
         THEN [ kind |-> "raise", sent |-> << >>, acked |-> acked ]
         ELSE [ kind |-> "continue",
                sent |-> << reqReply(m.params[2], capNames, n, acked).sent >>,
                acked |-> reqReply(m.params[2], capNames, n, acked).acked ]
    ELSE [ kind |-> "return", sent |-> << >>, acked |-> acked ]

\* ------------------------------------------------------------------
\* Initial state: after setUp, no connection accepted yet
\* ------------------------------------------------------------------
\* the configuration the controller starts the server with, and the ones
\* the tests hand to rehash
BASE_CONFIG == "BASE_CONFIG"
Configs == { BASE_CONFIG, "config1" }

NoCall == [ name |-> "none", caps |-> << >>, cap_ls |-> FALSE,
            pred |-> None, text |-> << >> ]

Init ==
    /\ pc = "setUp"
    /\ conn_file = << >>
    /\ wire = << >>
    /\ protocol_version = NoAttribute
    /\ nick = None
    /\ user = None
    /\ acked_capabilities = {}
    /\ capability_names = {}
    /\ call = NoCall
    /\ ret = None
    /\ err = ""
    /\ arrived = << >>
    /\ sendLog = << >>
    /\ ncalls = 0
    /\ readBase = 0
    /\ sendBase = 0
    /\ msgBase = 0
    /\ predCalls = 0
    /\ eof = FALSE
    /\ clients = << >>
    /\ conns = << >>
    /\ config = BASE_CONFIG
    /\ config_file = BASE_CONFIG

\* ------------------------------------------------------------------
\* The peer
\* ------------------------------------------------------------------
\* the client under test writes one more line to the socket; the test thread
\* sees the socket only inside getLine, so the writes are taken while it is
\* inside a helper that reads
ClientSend ==
    /\ pc \in { "readCapLs", "reqLoop", "getMessage" }
    /\ ~eof
    /\ Len(arrived) < MaxLines
    /\ Len(conn_file) < MaxAhead
    /\ \E l \in PeerLines :
          /\ arrived' = Append(arrived, l)
          /\ conn_file' = Append(conn_file, l)
    /\ UNCHANGED << pc, wire, protocol_version, nick, user, acked_capabilities,
                    capability_names, call, ret, err, sendLog, ncalls,
                    readBase, sendBase, msgBase, predCalls,
                    eof, clients, conns,
                    config, config_file >>

\* ------------------------------------------------------------------
\* The test thread
\* ------------------------------------------------------------------
\* the effect of self.sendLine(line) when nread lines have been read
sendLine(line, nread) ==
    /\ wire' = wire \o sendLineBytes(line)
    /\ sendLog' = Append(sendLog, [ text |-> line, nread |-> nread ])

\* an exception leaves the helper and ends the test
Raise(e) ==
    /\ pc' = "failed"
    /\ err' = e
    /\ ret' = None

Return(v) ==
    /\ pc' = "returned"
    /\ ret' = v
    /\ err' = ""

StartCall(c) ==
    /\ ncalls < MaxCalls
    /\ ncalls' = ncalls + 1
    /\ call' = c
    /\ readBase' = NRead
    /\ sendBase' = Len(sendLog)
    /\ msgBase' = NRead
    /\ predCalls' = 0
    /\ ret' = None
    /\ err' = ""

\* testSendCap: self.readCapLs() runs the client and accepts its connection
CallReadCapLs ==
    /\ pc = "setUp"
    /\ StartCall([ NoCall EXCEPT !.name = "readCapLs" ])
    /\ pc' = "readCapLs"
    /\ UNCHANGED << conn_file, wire, protocol_version, nick, user,
                    acked_capabilities, capability_names, arrived, sendLog,
                    eof, clients, conns,
                    config, config_file >>

\* self.negotiateCapabilities(caps, cap_ls): with cap_ls up to the first
\* getMessage of readCapLs, without it up to the first getMessage of the loop
CallNegotiate ==
    \E caps \in CapsChoices, cap_ls \in BOOLEAN :
        /\ pc = IF cap_ls THEN "setUp" ELSE "returned"
        /\ StartCall([ NoCall EXCEPT !.name = "negotiateCapabilities",
                                     !.caps = caps, !.cap_ls = cap_ls ])
        /\ IF cap_ls
           THEN /\ pc' = "readCapLs"
                /\ UNCHANGED << acked_capabilities, capability_names >>
           ELSE /\ pc' = "reqLoop"
                /\ capability_names' = DOMAIN cap_list_to_dict(caps)
                /\ acked_capabilities' = {}
        /\ UNCHANGED << conn_file, wire, protocol_version, nick, user,
                        arrived, sendLog,
                    eof, clients, conns,
                    config, config_file >>

\* readCapLs once the first line is there, and what negotiateCapabilities
\* does after it up to its next getMessage
ReadCapLsStep ==
    /\ pc = "readCapLs"
    /\ conn_file # << >>
    /\ conn_file' = Tail(conn_file)
    /\ \E it \in { getMessage(Head(conn_file), None, nick, user) } :
       \E c \in { IF it.kind = "return" THEN readCapLs(Val(it.msg))
                  ELSE [ raised |-> TRUE, protocol_version |-> NoAttribute ] } :
           IF it.kind # "return"
           THEN /\ Raise(it.err)
                /\ UNCHANGED << wire, sendLog, protocol_version,
                                acked_capabilities, capability_names >>
           ELSE IF c.raised
           THEN /\ Raise("AssertionError")
                /\ UNCHANGED << wire, sendLog, protocol_version,
                                acked_capabilities, capability_names >>
           ELSE /\ protocol_version' = c.protocol_version
                /\ IF call.name = "readCapLs" \/ noNegotiation(c.protocol_version)
                   THEN /\ Return(None)
                        /\ UNCHANGED << wire, sendLog, acked_capabilities,
                                        capability_names >>
                   ELSE /\ sendLine(capLsLine(call.caps), NRead + 1)
                        /\ capability_names' = DOMAIN cap_list_to_dict(call.caps)
                        /\ acked_capabilities' = {}
                        /\ pc' = "reqLoop"
                        /\ UNCHANGED << ret, err >>
    /\ msgBase' = NRead + 1
    /\ predCalls' = 0
    /\ UNCHANGED << nick, user, call, arrived, ncalls, readBase, sendBase,
                    eof, clients, conns,
                    config, config_file >>

\* one line read inside negotiateCapabilities' loop
ReqLoopStep ==
    /\ pc = "reqLoop"
    /\ conn_file # << >>
    /\ conn_file' = Tail(conn_file)
    /\ \E it \in { getMessage(Head(conn_file), Some("userNickPredicate"),
                              nick, user) } :
       \E h \in { IF it.kind = "return"
                  THEN negotiateStep(Val(it.msg), capability_names, it.nick,
                                     acked_capabilities)
                  ELSE [ kind |-> it.kind, sent |-> << >>,
                         acked |-> acked_capabilities ] } :
           /\ nick' = it.nick
           /\ user' = it.user
           /\ acked_capabilities' = h.acked
           /\ IF h.sent = << >>
              THEN UNCHANGED << wire, sendLog >>
              ELSE sendLine(h.sent[1], NRead + 1)
           /\ CASE it.kind = "raise" ->
                     /\ Raise(it.err)
                     /\ predCalls' = predCalls + it.called
                     /\ UNCHANGED msgBase
                [] it.kind = "continue" ->
                     /\ predCalls' = predCalls + it.called
                     /\ UNCHANGED << pc, ret, err, msgBase >>
                [] it.kind = "return" /\ h.kind = "raise" ->
                     /\ Raise("AssertionError")
                     /\ predCalls' = predCalls + it.called
                     /\ UNCHANGED msgBase
                [] it.kind = "return" /\ h.kind = "return" ->
                     /\ Return(it.msg)
                     /\ predCalls' = predCalls + it.called
                     /\ UNCHANGED msgBase
                [] it.kind = "return" /\ h.kind = "continue" ->
                     /\ msgBase' = NRead + 1
                     /\ predCalls' = 0
                     /\ UNCHANGED << pc, ret, err >>
    /\ UNCHANGED << protocol_version, capability_names, call, arrived, ncalls,
                    readBase, sendBase,
                    eof, clients, conns,
                    config, config_file >>

\* the test body calls self.getMessage(filter_pred=...)
CallGetMessage ==
    \E fp \in { None, Some("userNickPredicate") } :
        /\ pc = "returned"
        /\ StartCall([ NoCall EXCEPT !.name = "getMessage", !.pred = fp ])
        /\ pc' = "getMessage"
        /\ UNCHANGED << conn_file, wire, protocol_version, nick, user,
                        acked_capabilities, capability_names, arrived, sendLog,
                    eof, clients, conns,
                    config, config_file >>

\* one line read by that getMessage
GetMessageStep ==
    /\ pc = "getMessage"
    /\ conn_file # << >>
    /\ conn_file' = Tail(conn_file)
    /\ \E it \in { getMessage(Head(conn_file), call.pred, nick, user) } :
           /\ nick' = it.nick
           /\ user' = it.user
           /\ predCalls' = predCalls + it.called
           /\ CASE it.kind = "raise" -> Raise(it.err)
                [] it.kind = "continue" -> UNCHANGED << pc, ret, err >>
                [] it.kind = "return" -> Return(it.msg)
    /\ UNCHANGED << wire, protocol_version, acked_capabilities,
                    capability_names, call, arrived, sendLog, ncalls,
                    readBase, sendBase, msgBase,
                    eof, clients, conns,
                    config, config_file >>

\* the test body calls self.sendLine(text)
CallSendLine ==
    \E text \in SendTexts :
        /\ pc = "returned"
        /\ StartCall([ NoCall EXCEPT !.name = "sendLine", !.text = text ])
        /\ sendLine(text, NRead)
        /\ pc' = "returned"
        /\ UNCHANGED << conn_file, protocol_version, nick, user,
                        acked_capabilities, capability_names, arrived,
                    eof, clients, conns,
                    config, config_file >>

Next ==
    \/ ClientSend
    \/ CallReadCapLs
    \/ CallNegotiate
    \/ ReadCapLsStep
    \/ ReqLoopStep
    \/ CallGetMessage
    \/ GetMessageStep
    \/ CallSendLine

Spec == Init /\ [][Next]_vars

\* ------------------------------------------------------------------
\* The peer closes the connection
\* ------------------------------------------------------------------
\* conn_file.readline() once the peer has closed and every line was read
readlineAtEOF == << >>

\* getLine on the lines file not yet read: it returns what readline returns,
\* and blocks while the peer is connected and has written nothing
getLine(file, closed) ==
    IF file # << >> THEN [ blocks |-> FALSE, raised |-> FALSE, line |-> Head(file) ]
    ELSE IF closed THEN [ blocks |-> FALSE, raised |-> FALSE, line |-> readlineAtEOF ]
    ELSE [ blocks |-> TRUE, raised |-> FALSE, line |-> << >> ]

\* the filter predicate of the getMessage the thread is in
predicateAt(p) ==
    CASE p = "readCapLs" -> None
      [] p = "reqLoop" -> Some("userNickPredicate")
      [] OTHER -> call.pred

\* the client under test closes the connection
PeerClose ==
    /\ pc \in { "readCapLs", "reqLoop", "getMessage" }
    /\ ~eof
    /\ eof' = TRUE
    /\ UNCHANGED << pc, conn_file, wire, protocol_version, nick, user,
                    acked_capabilities, capability_names, call, ret, err,
                    arrived, sendLog, ncalls, readBase, sendBase, msgBase,
                    predCalls, clients, conns,
                    config, config_file >>

\* the getLine of a getMessage at the end of the stream, and what getMessage
\* does with the line it is given (a line without a command never makes a
\* message, so the turn raises or reads again)
ReadAtEOF ==
    /\ pc \in { "readCapLs", "reqLoop", "getMessage" }
    /\ conn_file = << >>
    /\ \E l \in { getLine(conn_file, eof) } :
          /\ ~l.blocks
          /\ \E it \in { IF l.raised
                          THEN [ kind |-> "raise", err |-> "ConnectionError" ]
                          ELSE getMessage(l.line, predicateAt(pc), nick, user) } :
                /\ it.kind # "return"
                /\ IF it.kind = "raise"
                   THEN Raise(it.err)
                   ELSE UNCHANGED << pc, ret, err >>
    /\ UNCHANGED << conn_file, wire, protocol_version, nick, user,
                    acked_capabilities, capability_names, call, arrived,
                    sendLog, ncalls, readBase, sendBase, msgBase, predCalls,
                    eof, clients, conns,
                    config, config_file >>

NextClose ==
    \/ Next
    \/ PeerClose
    \/ ReadAtEOF

SpecClose == Init /\ [][NextClose]_vars

\* ------------------------------------------------------------------
\* _IrcTestCase.assertMessageEqual
\* ------------------------------------------------------------------
S_subcommand == << "s", "u", "b", "c", "o", "m", "m", "a", "n", "d" >>
S_subparams == << "s", "u", "b", "p", "a", "r", "a", "m", "s" >>

\* Python's truth value of an optional string: None and '' are false
truthy(o) == ~IsNone(o) /\ Val(o) # << >>

\* the loop over kwargs: the index of the first keyword whose value is not
\* the message's attribute (assertEqual raises there), 0 when all are equal
RECURSIVE kwargsMismatch(_, _, _)
kwargsMismatch(msg, kwargs, i) ==
    IF i > Len(kwargs) THEN 0
    ELSE IF msg[kwargs[i].key] # kwargs[i].value THEN i
    ELSE kwargsMismatch(msg, kwargs, i + 1)

\* subTests that stops at the first failure
subTests_shortCircuit(msg, subcommand, subparams) ==
    IF truthy(subcommand) /\ msg.params[2] # Val(subcommand)
    THEN { S_subcommand }
    ELSE IF ~IsNone(subparams)
            /\ SubSeq(msg.params, 3, Len(msg.params)) # Val(subparams)
    THEN { S_subparams }
    ELSE {}

\* the two subTest blocks: the keys of the ones whose assertEqual failed
subTests(msg, subcommand, subparams) ==
    (IF truthy(subcommand) /\ msg.params[2] # Val(subcommand)
     THEN { S_subcommand } ELSE {})
    \cup
    (IF ~IsNone(subparams)
          /\ SubSeq(msg.params, 3, Len(msg.params)) # Val(subparams)
     THEN { S_subparams } ELSE {})

\* the part of assertMessageEqual that deals with subcommands
subcommandMode(msg, subcommand, subparams, target) ==
    IF ~IsNone(subcommand) \/ ~IsNone(subparams)
    THEN IF ~(Len(msg.params) > 2)
         THEN [ raised |-> TRUE, failures |-> {} ]
         ELSE [ raised |-> FALSE,
                failures |-> subTests(msg, subcommand, subparams) ]
    ELSE [ raised |-> FALSE, failures |-> {} ]

\* assertMessageEqual(msg, subcommand, subparams, target, **kwargs): whether
\* an assertion failure leaves the call, and the subTests recorded as failed
assertMessageEqual(msg, subcommand, subparams, target, kwargs) ==
    IF kwargsMismatch(msg, kwargs, 1) # 0
    THEN [ raised |-> TRUE, failures |-> {} ]
    ELSE subcommandMode(msg, subcommand, subparams, target)

\* the messages, the expectations and the keywords the tests compare
AssertMessages ==
    { Message(EmptyTags, None, S_CAP, << S_END >>),
      Message(EmptyTags, None, S_CAP, << S_STAR, S_LS >>),
      Message(EmptyTags, None, S_CAP, << S_STAR, S_LS, S_sasl >>),
      Message(EmptyTags, None, S_CAP, << S_STAR, S_LS, S_STAR, S_sasl >>),
      Message(EmptyTags, Some(S_foo), S_CAP,
              << S_foo, S_ACK, S_sasl \o SP \o S_message_tags >>),
      Message(EmptyTags, None, S_PING, << S_x >>) }

AssertSubcommands == { None, Some(S_LS), Some(S_ACK) }

AssertSubparams ==
    { None, Some(<< S_sasl >>), Some(<< S_STAR, S_sasl >>), Some(<< >>) }

AssertTargets == { None, Some(S_STAR), Some(S_foo) }

AssertKwargs ==
    { << >>,
      << [ key |-> "command", value |-> S_CAP ] >>,
      << [ key |-> "command", value |-> S_PING ] >>,
      << [ key |-> "command", value |-> S_CAP ],
         [ key |-> "params", value |-> << S_END >> ] >>,
      << [ key |-> "params", value |-> << S_STAR, S_LS, S_sasl >> ],
         [ key |-> "command", value |-> S_CAP ] >>,
      << [ key |-> "prefix", value |-> None ] >>,
      << [ key |-> "tags", value |-> EmptyTags ],
         [ key |-> "prefix", value |-> Some(S_foo) ] >> }

\* the test body calls self.assertMessageEqual(msg, ...): an assertion
\* failure outside a subTest ends the test, one inside a subTest is recorded
\* and the call returns
CallAssertMessageEqual ==
    /\ pc = "setUp"
    /\ \E msg \in AssertMessages, subcommand \in AssertSubcommands,
          subparams \in AssertSubparams, target \in AssertTargets,
          kwargs \in AssertKwargs :
         \E r \in { assertMessageEqual(msg, subcommand, subparams, target,
                                       kwargs) } :
            /\ call' = [ name |-> "assertMessageEqual", msg |-> msg,
                         subcommand |-> subcommand, subparams |-> subparams,
                         target |-> target, kwargs |-> kwargs ]
            /\ ret' = r.failures
            /\ pc' = IF r.raised THEN "failed" ELSE "returned"
            /\ err' = IF r.raised THEN "AssertionError" ELSE ""
    /\ UNCHANGED << conn_file, wire, protocol_version, nick, user,
                    acked_capabilities, capability_names, arrived, sendLog,
                    ncalls, readBase, sendBase, msgBase, predCalls, eof,
                    clients, conns,
                    config, config_file >>

NextAssert == CallAssertMessageEqual

SpecAssert == Init /\ [][NextAssert]_vars

\* ------------------------------------------------------------------
\* Serialization of a Message (section 3 of the specification) and the
\* round trip through the parser
\* ------------------------------------------------------------------
S_001 == << "0", "0", "1" >>
S_id == << "i", "d" >>
S_123 == << "1", "2", "3" >>
S_k == << "k" >>

\* IRCv3 tag value escaping, the inverse of unescape_tag_value
RECURSIVE escape_tag_value(_)
escape_tag_value(v) ==
    IF v = << >> THEN << >>
    ELSE (CASE v[1] = ";" -> << "\\", ":" >>
            [] v[1] = " " -> << "\\", "s" >>
            [] v[1] = "\\" -> << "\\", "\\" >>
            [] v[1] = "\r" -> << "\\", "r" >>
            [] v[1] = "\n" -> << "\\", "n" >>
            [] OTHER -> << v[1] >>)
         \o escape_tag_value(Tail(v))

\* key or key=value
serialize_tag(k, v) ==
    IF v = << >> THEN k ELSE k \o << "=" >> \o escape_tag_value(v)

\* the entries of the keys, joined by ';'
RECURSIVE serialize_tags(_, _)
serialize_tags(tags, keys) ==
    IF keys = {} THEN << >>
    ELSE LET k == CHOOSE x \in keys : TRUE
         IN  serialize_tag(k, tags[k])
                \o (IF keys = { k } THEN << >>
                    ELSE << ";" >> \o serialize_tags(tags, keys \ { k }))

\* whether the last parameter has to be written after a colon
needsColon(p) == p = << >> \/ p[1] = ":" \/ IndexOf(p, " ") # 0

\* a serializer that writes the last parameter like the others
serialize_params_plain(params) ==
    IF params = << >> THEN << >>
    ELSE SP \o join(params)

\* the parameters, each after one space, the last one after a colon when
\* it is empty, contains a space or starts with ':'
serialize_params(params) ==
    IF params = << >> THEN << >>
    ELSE (IF Len(params) = 1 THEN << >>
          ELSE SP \o join(SubSeq(params, 1, Len(params) - 1)))
         \o SP
         \o (IF needsColon(params[Len(params)]) THEN COLON ELSE << >>)
         \o params[Len(params)]

serialize(m) ==
    (IF DOMAIN m.tags = {} THEN << >>
     ELSE << "@" >> \o serialize_tags(m.tags, DOMAIN m.tags) \o SP)
    \o (IF IsNone(m.prefix) THEN << >> ELSE COLON \o Val(m.prefix) \o SP)
    \o m.command
    \o serialize_params(m.params)

\* legal messages: tags, prefix, command and parameters of the shapes the
\* protocol allows; the last parameter may be empty, hold spaces or start
\* with ':'
LegalTags ==
    { EmptyTags,
      S_id :> S_123,
      S_k :> << >>,
      (S_id :> S_123) @@ (S_k :> << "a", ";", "b", " ", "\\", "c" >>) }

LegalPrefixes == { None, Some(S_foo) }

LegalCommands == { S_CAP, S_001 }

LegalParams ==
    { << >>,
      << S_END >>,
      << S_STAR, S_LS, << >> >>,
      << S_STAR, S_ACK, S_sasl \o SP \o S_message_tags >>,
      << S_foo, COLON \o S_x >>,
      << << "a", " ", " ", "b", " " >> >> }

LegalMessages ==
    { Message(t, p, c, ps) :
        t \in LegalTags, p \in LegalPrefixes, c \in LegalCommands,
        ps \in LegalParams }

\* a message is written to the wire
Serialize ==
    /\ pc = "setUp"
    /\ \E m \in LegalMessages :
          /\ call' = [ name |-> "serialize", msg |-> m ]
          /\ wire' = serialize(m)
    /\ pc' = "serialized"
    /\ UNCHANGED << conn_file, protocol_version, nick, user,
                    acked_capabilities, capability_names, ret, err, arrived,
                    sendLog, ncalls, readBase, sendBase, msgBase, predCalls,
                    eof, clients, conns,
                    config, config_file >>

\* and the line is parsed back
Parse ==
    /\ pc = "serialized"
    /\ \E p \in { parse_message(wire) } :
          IF p.ok
          THEN Return(Some(p.msg))
          ELSE Raise("ParseError")
    /\ UNCHANGED << conn_file, wire, protocol_version, nick, user,
                    acked_capabilities, capability_names, call, arrived,
                    sendLog, ncalls, readBase, sendBase, msgBase, predCalls,
                    eof, clients, conns,
                    config, config_file >>

NextParse ==
    \/ Serialize
    \/ Parse

SpecParse == Init /\ [][NextParse]_vars

\* ------------------------------------------------------------------
\* BaseServerTestCase: the server-side driver
\* ------------------------------------------------------------------
S_PONG == << "P", "O", "N", "G" >>
S_NOTICE == << "N", "O", "T", "I", "C", "E" >>
S_QUIT == << "Q", "U", "I", "T" >>
S_mallory == << "m", "a", "l", "l", "o", "r", "y" >>
S_PING_foo == S_PING \o SP \o S_foo
S_USER_line ==
    S_USER \o SP
    \o << "u", "s", "e", "r", "n", "a", "m", "e", " ", "*", " ", "*", " ", ":",
          "R", "e", "a", "l", "n", "a", "m", "e" >>

\* the keys of self.clients: the integers addClient chooses and the strings
\* the tests pass as name
IntName(n) == << "int", n >>
StrName(s) == << "str", s >>

\* the lines the server under test may write to a client
L_001 == S_001 \o SP \o S_foo \o CRLF
L_PONG == S_PONG \o SP \o S_foo \o CRLF
L_NOTICE == S_NOTICE \o SP \o S_STAR \o SP \o S_x \o CRLF

ServerLines == { L_001, L_PONG, L_NOTICE }

ParsedServerLine == [ l \in ServerLines |-> parse_message(l) ]

\* the nicks and the names the tests pass to connectClient and addClient
Nicks == { S_foo }
GivenNames == { None, Some(StrName(S_mallory)) }

\* the methods BaseServerTestCase has: its own and those of _IrcTestCase
BaseServerTestCaseMethods ==
    { "shortDescription", "setUp", "assertMessageEqual", "assertIn",
      "assertEqual", "tearDown", "find_hostname_and_port", "addClient",
      "removeClient", "getMessages", "getMessage", "getRegistrationMessage",
      "sendLine", "getCapLs", "assertDisconnected", "connectClient" }

\* client_mock.ClientMock after connect()
NewConn(name) ==
    [ name |-> name, inbuf |-> << >>, srv |-> << >>, closed |-> FALSE,
      open |-> TRUE, log |-> << >> ]

SendEvent(line) == [ dir |-> "send", text |-> line ]
RecvEvent(line) == [ dir |-> "recv", text |-> line ]

\* ClientMock.sendLine on the connection c
mockSendLine(c, line) == [ c EXCEPT !.log = Append(@, SendEvent(line)) ]

\* ClientMock's read of one line (section 4.2): the next line, a connection
\* error once the server has closed and every line was read
mockGetLine(c) ==
    IF c.inbuf # << >>
    THEN [ blocks |-> FALSE, raised |-> FALSE, line |-> Head(c.inbuf) ]
    ELSE IF c.closed
    THEN [ blocks |-> FALSE, raised |-> TRUE, line |-> << >> ]
    ELSE [ blocks |-> TRUE, raised |-> FALSE, line |-> << >> ]

\* the connection once that line has been read
mockAfterRead(c) ==
    [ c EXCEPT !.inbuf = Tail(@), !.log = Append(@, RecvEvent(Head(c.inbuf))) ]

Max(S) == CHOOSE x \in S : \A y \in S : y <= x

\* int(key) of a key of self.clients: a name that is not a number raises
\* ValueError
intOfKey(k) ==
    IF k[1] = "int" THEN [ raised |-> FALSE, value |-> k[2] ]
    ELSE [ raised |-> TRUE, value |-> 0 ]

\* addClient's choice of the name: the one given or, without one,
\* max(map(int, list(self.clients)+[0]))+1
addClientName(keys, name) ==
    IF ~IsNone(name) THEN [ raised |-> FALSE, name |-> Val(name) ]
    ELSE IF \E k \in keys : intOfKey(k).raised
    THEN [ raised |-> TRUE, name |-> IntName(0) ]
    ELSE [ raised |-> FALSE,
           name |-> IntName(Max({ intOfKey(k).value : k \in keys } \cup { 0 }) + 1) ]

\* self.clients[name] = ClientMock(...); self.clients[name].connect(...)
registered(cl, name, idx) ==
    [ k \in DOMAIN cl \cup { name } |-> IF k = name THEN idx ELSE cl[k] ]

\* del self.clients[name]
unregistered(cl, name) == [ k \in DOMAIN cl \ { name } |-> cl[k] ]

\* a connectClient that sends its PING after the first message, whatever it is
connectStep_pingAtOnce(phase, m) ==
    IF phase = "connect001"
    THEN [ next |-> "connectPONG", sent |-> << S_PING_foo >> ]
    ELSE IF m.command = S_PONG
         THEN [ next |-> "returned", sent |-> << >> ]
         ELSE [ next |-> "connectPONG", sent |-> << >> ]

\* connectClient's two loops on the message read: while waiting for 001
\* and, after the PING, while waiting for the PONG
connectStep(phase, m) ==
    IF phase = "connect001"
    THEN IF m.command = S_001
         THEN [ next |-> "connectPONG", sent |-> << S_PING_foo >> ]
         ELSE [ next |-> "connect001", sent |-> << >> ]
    ELSE IF m.command = S_PONG
         THEN [ next |-> "returned", sent |-> << >> ]
         ELSE [ next |-> "connectPONG", sent |-> << >> ]

\* socket.error is OSError: the connection errors are subclasses of it
isSocketError(e) == e \in { "ConnectionError", "socket.error" }

\* the first statement of assertDisconnected's try block: the lookup of
\* self.getLines
getLinesLookup ==
    IF "getLines" \in BaseServerTestCaseMethods THEN "" ELSE "AttributeError"

\* what the server-side driver leaves alone
clientSideVars ==
    << conn_file, wire, protocol_version, nick, user, acked_capabilities,
       capability_names, arrived, sendLog, readBase, sendBase, msgBase,
       predCalls, eof >>

\* the test body makes one more call
ServerCall(c) ==
    /\ pc \in { "setUp", "returned" }
    /\ ncalls < MaxServerCalls
    /\ ncalls' = ncalls + 1
    /\ call' = c

\* the connection the call in progress is about
CallConn == clients[call.client]

\* self.addClient(name)
AddClient ==
    /\ Len(conns) < MaxConns
    /\ \E name \in GivenNames :
       \E r \in { addClientName(DOMAIN clients, name) } :
          /\ ServerCall([ name |-> "addClient", given |-> name,
                          client |-> r.name, nick |-> << >> ])
          /\ IF r.raised
             THEN /\ Raise("ValueError")
                  /\ UNCHANGED svars
             ELSE /\ conns' = Append(conns, NewConn(r.name))
                  /\ clients' = registered(clients, r.name, Len(conns) + 1)
                  /\ Return(Some(r.name))
    /\ UNCHANGED << clientSideVars, controllerVars >>

\* self.removeClient(name)
RemoveClient ==
    /\ \E name \in DOMAIN clients \cup { StrName(S_mallory) } :
          /\ ServerCall([ name |-> "removeClient", given |-> Some(name),
                          client |-> name, nick |-> << >> ])
          /\ IF name \notin DOMAIN clients
             THEN /\ Raise("AssertionError")
                  /\ UNCHANGED svars
             ELSE /\ conns' = [ conns EXCEPT ![clients[name]].open = FALSE ]
                  /\ clients' = unregistered(clients, name)
                  /\ Return(None)
    /\ UNCHANGED << clientSideVars, controllerVars >>

\* self.sendLine(client, line)
CallServerSendLine ==
    /\ \E name \in DOMAIN clients :
          /\ ServerCall([ name |-> "sendLine", given |-> Some(name),
                          client |-> name, nick |-> << >> ])
          /\ conns' = [ conns EXCEPT ![clients[name]] = mockSendLine(@, S_QUIT) ]
          /\ Return(None)
    /\ UNCHANGED clients
    /\ UNCHANGED << clientSideVars, controllerVars >>

\* self.connectClient(nick, name) up to its first getMessage
CallConnectClient ==
    /\ Len(conns) < MaxConns
    /\ \E n \in Nicks, name \in GivenNames :
       \E r \in { addClientName(DOMAIN clients, name) } :
          /\ ServerCall([ name |-> "connectClient", given |-> name,
                          client |-> r.name, nick |-> n ])
          /\ IF r.raised
             THEN /\ Raise("ValueError")
                  /\ UNCHANGED svars
             ELSE /\ conns' = Append(conns,
                         mockSendLine(mockSendLine(NewConn(r.name),
                                                   S_NICK \o SP \o n),
                                      S_USER_line))
                  /\ clients' = registered(clients, r.name, Len(conns) + 1)
                  /\ pc' = "connect001"
                  /\ ret' = None
                  /\ err' = ""
    /\ UNCHANGED << clientSideVars, controllerVars >>

\* one getMessage of connectClient's loops, and what follows it up to the
\* next getMessage
ConnectReadStep ==
    /\ pc \in { "connect001", "connectPONG" }
    /\ call.name = "connectClient"
    /\ \E l \in { mockGetLine(conns[CallConn]) } :
          /\ ~l.blocks
          /\ IF l.raised
             THEN /\ Raise("ConnectionError")
                  /\ UNCHANGED conns
             ELSE \E p \in { parse_message(l.line) } :
                  \E h \in { IF p.ok THEN connectStep(pc, p.msg)
                             ELSE [ next |-> "failed", sent |-> << >> ] } :
                     /\ conns' = [ conns EXCEPT ![CallConn] =
                                     IF h.sent = << >> THEN mockAfterRead(@)
                                     ELSE mockSendLine(mockAfterRead(@), h.sent[1]) ]
                     /\ CASE h.next = "failed" -> Raise("ParseError")
                          [] h.next = "returned" -> Return(None)
                          [] OTHER -> /\ pc' = h.next
                                      /\ UNCHANGED << ret, err >>
    /\ UNCHANGED << clients, call, ncalls >>
    /\ UNCHANGED << clientSideVars, controllerVars >>

\* self.assertDisconnected(client): the try block ends at its first
\* statement, whose error the except clause takes only if it is a
\* socket.error
AssertDisconnected ==
    /\ \E name \in DOMAIN clients :
       \E e \in { getLinesLookup } :
          /\ e # ""
          /\ ServerCall([ name |-> "assertDisconnected", given |-> Some(name),
                          client |-> name, nick |-> << >> ])
          /\ IF isSocketError(e)
             THEN /\ clients' = unregistered(clients, name)
                  /\ Return(None)
             ELSE /\ Raise(e)
                  /\ UNCHANGED clients
    /\ UNCHANGED conns
    /\ UNCHANGED << clientSideVars, controllerVars >>

\* ------------------------------------------------------------------
\* GossipController.rehash(case, config)
\* ------------------------------------------------------------------
S_operator_for_rehash ==
    << "o", "p", "e", "r", "a", "t", "o", "r", "_", "f", "o", "r", "_",
       "r", "e", "h", "a", "s", "h" >>
S_OPER_line ==
    << "O", "P", "E", "R", " ", "o", "p", "e", "r", "u", "s", "e", "r", " ",
       "o", "p", "e", "r", "p", "a", "s", "s", "w", "o", "r", "d" >>
S_REHASH == << "R", "E", "H", "A", "S", "H" >>

\* ClientMock.getMessages: every line that has arrived is read
RECURSIVE mockGetMessages(_)
mockGetMessages(c) ==
    IF c.inbuf = << >> THEN c ELSE mockGetMessages(mockAfterRead(c))

\* rehash from the return of connectClient to its QUIT, on the operator's
\* connection
rehashTail(c) ==
    mockSendLine(
        mockGetMessages(mockSendLine(mockSendLine(c, S_OPER_line), S_REHASH)),
        S_QUIT)

\* controller.rehash(case, config) up to the first getMessage of connectClient
CallRehash ==
    /\ Len(conns) < MaxConns
    /\ \E cfg \in Configs :
       \E r \in { addClientName(DOMAIN clients,
                                 Some(StrName(S_operator_for_rehash))) } :
          /\ ServerCall([ name |-> "rehash", given |-> Some(r.name),
                          client |-> r.name, nick |-> S_operator_for_rehash,
                          config |-> cfg ])
          /\ config' = cfg
          /\ config_file' = cfg
          /\ conns' = Append(conns,
                  mockSendLine(mockSendLine(NewConn(r.name),
                                            S_NICK \o SP \o S_operator_for_rehash),
                               S_USER_line))
          /\ clients' = registered(clients, r.name, Len(conns) + 1)
          /\ pc' = "connect001"
          /\ ret' = None
          /\ err' = ""
    /\ UNCHANGED clientSideVars

\* one getMessage of the connectClient inside rehash; at the PONG rehash goes
\* on to its QUIT
RehashReadStep ==
    /\ pc \in { "connect001", "connectPONG" }
    /\ call.name = "rehash"
    /\ \E l \in { mockGetLine(conns[CallConn]) } :
          /\ ~l.blocks
          /\ IF l.raised
             THEN /\ Raise("ConnectionError")
                  /\ UNCHANGED conns
             ELSE \E p \in { parse_message(l.line) } :
                  \E h \in { IF p.ok THEN connectStep(pc, p.msg)
                             ELSE [ next |-> "failed", sent |-> << >> ] } :
                     /\ conns' = [ conns EXCEPT ![CallConn] =
                                     IF h.next = "returned"
                                     THEN rehashTail(mockAfterRead(@))
                                     ELSE IF h.sent = << >> THEN mockAfterRead(@)
                                     ELSE mockSendLine(mockAfterRead(@), h.sent[1]) ]
                     /\ CASE h.next = "failed" -> Raise("ParseError")
                          [] h.next = "returned" ->
                                      /\ pc' = "rehashQUIT"
                                      /\ UNCHANGED << ret, err >>
                          [] OTHER -> /\ pc' = h.next
                                      /\ UNCHANGED << ret, err >>
    /\ UNCHANGED << clients, call, ncalls >>
    /\ UNCHANGED << clientSideVars, controllerVars >>

\* the case.assertDisconnected(client) that ends rehash
RehashDisconnected ==
    /\ pc = "rehashQUIT"
    /\ \E e \in { getLinesLookup } :
          /\ e # ""
          /\ IF isSocketError(e)
             THEN /\ clients' = unregistered(clients, call.client)
                  /\ Return(None)
             ELSE /\ Raise(e)
                  /\ UNCHANGED clients
    /\ UNCHANGED << conns, call, ncalls >>
    /\ UNCHANGED << clientSideVars, controllerVars >>

\* lines the server has written so far, over the connections from i on
RECURSIVE ServerWrote(_)
ServerWrote(i) ==
    IF i > Len(conns) THEN 0 ELSE Len(conns[i].srv) + ServerWrote(i + 1)

\* the server under test writes a line to the client the thread reads from
ServerSend ==
    /\ pc \in { "connect001", "connectPONG" }
    /\ ~conns[CallConn].closed
    /\ ServerWrote(1) < MaxLines
    /\ Len(conns[CallConn].inbuf) < MaxAhead
    /\ \E l \in ServerLines :
          conns' = [ conns EXCEPT ![CallConn].srv = Append(@, l),
                                  ![CallConn].inbuf = Append(@, l) ]
    /\ UNCHANGED << pc, call, ret, err, ncalls, clients >>
    /\ UNCHANGED << clientSideVars, controllerVars >>

\* the server under test closes a connection: while the client registers,
\* or upon a line the test has just sent it (a QUIT, an over-length line)
ServerClose ==
    /\ \/ pc \in { "connect001", "connectPONG", "getCapLs" }
       \/ pc = "returned" /\ call.name = "sendLine"
       \/ pc = "rehashQUIT"
    /\ call.client \in DOMAIN clients
    /\ ~conns[CallConn].closed
    /\ conns' = [ conns EXCEPT ![CallConn].closed = TRUE ]
    /\ UNCHANGED << pc, call, ret, err, ncalls, clients >>
    /\ UNCHANGED << clientSideVars, controllerVars >>

\* ------------------------------------------------------------------
\* BaseServerTestCase.getCapLs(client, as_list)
\* ------------------------------------------------------------------
\* the lines the server may answer CAP LS 302 with
L_LS_more ==
    S_CAP \o SP \o S_STAR \o SP \o S_LS \o SP \o S_STAR \o SP \o COLON
    \o S_sasl_PLAIN \o SP \o S_x \o CRLF
L_LS_last ==
    S_CAP \o SP \o S_STAR \o SP \o S_LS \o SP \o COLON \o S_message_tags \o CRLF
L_LS_short == S_CAP \o SP \o S_STAR \o SP \o S_LS \o CRLF
L_ACK_x == S_CAP \o SP \o S_STAR \o SP \o S_ACK \o SP \o COLON \o S_x \o CRLF

CapLsLines == { L_LS_more, L_LS_last, L_LS_short, L_ACK_x, L_NOTICE, L_001 }

ParsedCapLsLine == [ l \in CapLsLines |-> parse_message(l) ]

\* the filter of getRegistrationMessage
notNotice(m) == m.command # S_NOTICE

\* a getCapLs that returns the tokens of the last line only
getCapLsStep_lastLineOnly(m, caps, as_list) ==
    LET a == assertMessageEqual(m, Some(S_LS), None, None,
                                << [ key |-> "command", value |-> S_CAP ] >>)
    IN  IF a.raised
        THEN [ kind |-> "raise", err |-> "AssertionError", caps |-> caps,
               failures |-> {}, ret |-> None ]
        ELSE IF m.params[3] = S_STAR
        THEN IF Len(m.params) < 4
             THEN [ kind |-> "raise", err |-> "IndexError", caps |-> caps,
                    failures |-> a.failures, ret |-> None ]
             ELSE [ kind |-> "continue", err |-> "",
                    caps |-> caps \o split(m.params[4]),
                    failures |-> a.failures, ret |-> None ]
        ELSE [ kind |-> "return", err |-> "",
               caps |-> split(m.params[3]),
               failures |-> a.failures,
               ret |-> Some(IF as_list THEN split(m.params[3])
                            ELSE cap_list_to_dict(split(m.params[3]))) ]

\* the body of getCapLs' loop on the message m that getRegistrationMessage
\* returned, with the local caps
getCapLsStep(m, caps, as_list) ==
    LET a == assertMessageEqual(m, Some(S_LS), None, None,
                                << [ key |-> "command", value |-> S_CAP ] >>)
    IN  IF a.raised
        THEN [ kind |-> "raise", err |-> "AssertionError", caps |-> caps,
               failures |-> {}, ret |-> None ]
        ELSE IF m.params[3] = S_STAR
        THEN IF Len(m.params) < 4
             THEN [ kind |-> "raise", err |-> "IndexError", caps |-> caps,
                    failures |-> a.failures, ret |-> None ]
             ELSE [ kind |-> "continue", err |-> "",
                    caps |-> caps \o split(m.params[4]),
                    failures |-> a.failures, ret |-> None ]
        ELSE [ kind |-> "return", err |-> "",
               caps |-> caps \o split(m.params[3]),
               failures |-> a.failures,
               ret |-> Some(IF as_list THEN caps \o split(m.params[3])
                            ELSE cap_list_to_dict(caps \o split(m.params[3]))) ]

\* self.getCapLs(client, as_list) up to its first getRegistrationMessage;
\* the call keeps the local caps and the subTests recorded as failed
CallGetCapLs ==
    /\ \E name \in DOMAIN clients, as_list \in BOOLEAN :
          /\ ServerCall([ name |-> "getCapLs", given |-> Some(name),
                          client |-> name, nick |-> << >>,
                          as_list |-> as_list, caps |-> << >>,
                          failures |-> {},
                          logBase |-> Len(conns[clients[name]].log) ])
          /\ pc' = "getCapLs"
          /\ ret' = None
          /\ err' = ""
    /\ UNCHANGED svars
    /\ UNCHANGED << clientSideVars, controllerVars >>

\* one line read by getCapLs
GetCapLsStep ==
    /\ pc = "getCapLs"
    /\ \E l \in { mockGetLine(conns[CallConn]) } :
          /\ ~l.blocks
          /\ IF l.raised
             THEN /\ Raise("ConnectionError")
                  /\ UNCHANGED << conns, call >>
             ELSE /\ conns' = [ conns EXCEPT ![CallConn] = mockAfterRead(@) ]
                  /\ \E p \in { parse_message(l.line) } :
                        IF ~p.ok
                        THEN Raise("ParseError") /\ UNCHANGED call
                        ELSE IF ~notNotice(p.msg)
                        THEN UNCHANGED << pc, ret, err, call >>
                        ELSE \E h \in { getCapLsStep(p.msg, call.caps,
                                                       call.as_list) } :
                               /\ call' = [ call EXCEPT
                                              !.caps = h.caps,
                                              !.failures = @ \cup h.failures ]
                               /\ CASE h.kind = "raise" -> Raise(h.err)
                                    [] h.kind = "return" -> Return(h.ret)
                                    [] OTHER -> UNCHANGED << pc, ret, err >>
    /\ UNCHANGED << clients, ncalls >>
    /\ UNCHANGED << clientSideVars, controllerVars >>

\* the server under test writes a line to the client getCapLs reads from
ServerSendCap ==
    /\ pc = "getCapLs"
    /\ ~conns[CallConn].closed
    /\ ServerWrote(1) < MaxLines
    /\ Len(conns[CallConn].inbuf) < MaxAhead
    /\ \E l \in CapLsLines :
          conns' = [ conns EXCEPT ![CallConn].srv = Append(@, l),
                                  ![CallConn].inbuf = Append(@, l) ]
    /\ UNCHANGED << pc, call, ret, err, ncalls, clients >>
    /\ UNCHANGED << clientSideVars, controllerVars >>

\* tearDown, after the test body has ended: removeClient on every client
\* still registered
tornDown(cl, cs) ==
    [ i \in 1..Len(cs) |->
        IF \E k \in DOMAIN cl : cl[k] = i
        THEN [ cs[i] EXCEPT !.open = FALSE ]
        ELSE cs[i] ]

TearDown ==
    /\ pc \in { "setUp", "returned", "failed" }
    /\ pc' = "tornDown"
    /\ call' = [ name |-> "tearDown", given |-> None, client |-> IntName(0),
                 nick |-> << >> ]
    /\ conns' = tornDown(clients, conns)
    /\ clients' = << >>
    /\ UNCHANGED << ret, err, ncalls >>
    /\ UNCHANGED << clientSideVars, controllerVars >>

NextServer ==
    \/ AddClient
    \/ RemoveClient
    \/ CallServerSendLine
    \/ CallConnectClient
    \/ ConnectReadStep
    \/ AssertDisconnected
    \/ ServerSend
    \/ ServerClose
    \/ TearDown
    \/ CallRehash
    \/ RehashReadStep
    \/ RehashDisconnected

SpecServer == Init /\ [][NextServer]_vars

\* a server test that reads capability lists: it adds clients and calls
\* getCapLs on them
NextCapLs ==
    \/ AddClient
    \/ CallGetCapLs
    \/ GetCapLsStep
    \/ ServerSendCap
    \/ ServerClose
    \/ TearDown

SpecCapLs == Init /\ [][NextCapLs]_vars

\* ------------------------------------------------------------------
\* Vocabulary of the properties
\* ------------------------------------------------------------------
\* what each line of the peer parses to, and the i-th line it wrote, parsed
ParsedPeerLine == [ l \in PeerLines |-> parse_message(l) ]
Parsed(i) == ParsedPeerLine[arrived[i]]
ParsedOk(i) == Parsed(i).ok
Msg(i) == Parsed(i).msg

InNegotiate == call.name = "negotiateCapabilities"

\* lines read before negotiateCapabilities' loop started
LoopStart == readBase + (IF call.cap_ls THEN 1 ELSE 0)

\* the names the test advertises with call.caps
Advertised == IF call.caps = << >> THEN {} ELSE { S_sasl, S_message_tags }

\* the CAP * LS line the peer is to see for call.caps
T_LS_empty == << "C", "A", "P", " ", "*", " ", "L", "S", " ", ":" >>
T_LS_both == << "C", "A", "P", " ", "*", " ", "L", "S", " ", ":", "s", "a", "s", "l", "=", "P", "L", "A", "I", "N", " ", "m", "e", "s", "s", "a", "g", "e", "-", "t", "a", "g", "s" >>
ExpectedCapLs == IF call.caps = << >> THEN T_LS_empty ELSE T_LS_both

\* a line the helper sent, as the peer parses it
SentMsg(i) == parse_message(sendLog[i].text).msg
IsCapLsReply(i) ==
    /\ SentMsg(i).command = S_CAP
    /\ Len(SentMsg(i).params) >= 2
    /\ SentMsg(i).params[2] = S_LS

\* ------------------------------------------------------------------
\* C1: readCapLs classifies the first message of the peer: CAP with params
\* exactly [LS] sets protocol_version to 301, [LS, 302] to 302, [END] to
\* None; any other first message raises an assertion failure and sets no
\* version.  Before the first message is read no version is set.
\* ------------------------------------------------------------------
C1_Classified(m) ==
    IF m.command = S_CAP /\ m.params = << S_LS >>
    THEN protocol_version = Some(301)
    ELSE IF m.command = S_CAP /\ m.params = << S_LS, S_302 >>
    THEN protocol_version = Some(302)
    ELSE IF m.command = S_CAP /\ m.params = << S_END >>
    THEN protocol_version = None
    ELSE /\ protocol_version = NoAttribute
         /\ pc = "failed"
         /\ err = "AssertionError"
         /\ NRead = 1

C1_ReadCapLsClassifies ==
    /\ NRead = 0 => protocol_version = NoAttribute
    /\ (NRead >= 1 /\ ParsedOk(1)) => C1_Classified(Msg(1))

C1_Witness ==
    /\ protocol_version = Some(302)
    /\ arrived[1] = L_CAP_LS_302
    /\ call.name = "readCapLs"
    /\ pc = "returned"

\* ------------------------------------------------------------------
\* C2: in negotiateCapabilities with cap_ls=True nothing is sent before the
\* first message is read; if the version is 301 or 302 the first line sent
\* is 'CAP * LS :<caps joined by spaces>', sent when exactly one line had
\* been read, and no other line of the call is a CAP LS; if the first
\* message is CAP END the call has returned None, has sent nothing and has
\* read only that one line; if the first message is refused nothing is sent.
\* ------------------------------------------------------------------
C2_CapLsSentOnce ==
    (InNegotiate /\ call.cap_ls) =>
        /\ pc = "readCapLs" => (Len(sendLog) = sendBase /\ NRead = readBase)
        /\ (pc # "readCapLs" /\ protocol_version \in { Some(301), Some(302) }) =>
              /\ Len(sendLog) >= sendBase + 1
              /\ sendLog[sendBase + 1].text = ExpectedCapLs
              /\ sendLog[sendBase + 1].nread = readBase + 1
              /\ \A i \in (sendBase + 2)..Len(sendLog) :
                    /\ ~IsCapLsReply(i)
                    /\ sendLog[i].nread > readBase + 1
        /\ (pc # "readCapLs" /\ protocol_version = None) =>
              /\ pc = "returned"
              /\ ret = None
              /\ Len(sendLog) = sendBase
              /\ NRead = readBase + 1
        /\ (pc # "readCapLs" /\ protocol_version = NoAttribute) =>
              /\ pc = "failed"
              /\ Len(sendLog) = sendBase

C2_Witness ==
    /\ InNegotiate /\ call.cap_ls
    /\ call.caps # << >>
    /\ pc = "returned"
    /\ Len(sendLog) = 2
    /\ sendLog[1].text = T_LS_both

\* ------------------------------------------------------------------
\* Steps of the negotiation loop, as the properties see them
\* ------------------------------------------------------------------
\* the loop takes the next line from the connection
ReadsInLoop ==
    /\ pc = "reqLoop"
    /\ conn_file # << >>
    /\ conn_file' = Tail(conn_file)

\* the line it takes, parsed
HeadParsed == ParsedPeerLine[Head(conn_file)]

IsReq(m) == m.command = S_CAP /\ Len(m.params) = 2 /\ m.params[1] = S_REQ
Requested(m) == Range(split(m.params[2]))

\* r is what the peer parses a line CAP <target> <sub> :<payload> to
IsReply(r, sub) ==
    /\ r.ok
    /\ r.msg.command = S_CAP
    /\ Len(r.msg.params) = 3
    /\ r.msg.params[2] = sub

\* exactly one line is sent in the step
SendsOne ==
    /\ Len(sendLog') = Len(sendLog) + 1
    /\ SubSeq(sendLog', 1, Len(sendLog)) = sendLog

\* the line sent in the step, as the peer parses it
SentReply == parse_message(sendLog'[Len(sendLog')].text)

\* the loop of the current negotiateCapabilities has been entered
LoopEntered ==
    /\ InNegotiate
    /\ call.cap_ls =>
          /\ pc # "readCapLs"
          /\ protocol_version \in { Some(301), Some(302) }

T_ACK_both == << "C", "A", "P", " ", "*", " ", "A", "C", "K", " ", ":", "s", "a", "s", "l", " ", "m", "e", "s", "s", "a", "g", "e", "-", "t", "a", "g", "s" >>

\* ------------------------------------------------------------------
\* C3: a CAP REQ whose whitespace-split names are all advertised is answered
\* in the same step by exactly one CAP ACK that carries the names string
\* unchanged, every requested name is added to acked_capabilities, and the
\* loop goes on.
\* ------------------------------------------------------------------
C3_Step(m) ==
    (IsReq(m) /\ Requested(m) \subseteq Advertised) =>
        /\ SendsOne
        /\ \E r \in { SentReply } :
              IsReply(r, S_ACK) /\ r.msg.params[3] = m.params[2]
        /\ acked_capabilities' = acked_capabilities \cup Requested(m)
        /\ pc' = "reqLoop"

C3_AckForSubsetReq ==
    [][ (ReadsInLoop /\ HeadParsed.ok) => C3_Step(HeadParsed.msg) ]_vars

C3_Witness ==
    /\ InNegotiate
    /\ Advertised = { S_sasl, S_message_tags }
    /\ acked_capabilities = { S_sasl, S_message_tags }
    /\ sendLog # << >>
    /\ sendLog[Len(sendLog)].text = T_ACK_both

\* ------------------------------------------------------------------
\* C4: a CAP REQ that names a capability that is not advertised is answered
\* in the same step by exactly one CAP NAK whose payload is the first 100
\* characters of the names string; no ACK is sent and acked_capabilities
\* stays as it was.
\* ------------------------------------------------------------------
C4_First100(names, payload) ==
    /\ Len(payload) = (IF Len(names) < 100 THEN Len(names) ELSE 100)
    /\ payload = SubSeq(names, 1, Len(payload))

C4_Step(m) ==
    (IsReq(m) /\ ~(Requested(m) \subseteq Advertised)) =>
        /\ SendsOne
        /\ \E r \in { SentReply } :
              IsReply(r, S_NAK) /\ C4_First100(m.params[2], r.msg.params[3])
        /\ acked_capabilities' = acked_capabilities
        /\ pc' = "reqLoop"

C4_NakLeavesAcked ==
    [][ (ReadsInLoop /\ HeadParsed.ok) => C4_Step(HeadParsed.msg) ]_vars

C4_Witness ==
    /\ InNegotiate
    /\ acked_capabilities = { S_sasl, S_message_tags }
    /\ Len(sendLog) = 3
    /\ arrived[NRead] = L_REQ_long
    /\ SentMsg(3).params[2] = S_NAK
    /\ Len(SentMsg(3).params[3]) = 100

\* ------------------------------------------------------------------
\* C5: while the loop of negotiateCapabilities runs, every line it has read
\* was a NICK, a USER or a CAP; a message of any other command ends the loop
\* and is the value returned (it is never an error); the returned message
\* is the last line read and is never a NICK or a USER.  A call that fails
\* fails on the last line it read: on a parse error exactly when that line
\* does not parse.
\* ------------------------------------------------------------------
C5_Passed(lo, hi) ==
    \A i \in lo..hi :
        ParsedOk(i) /\ Msg(i).command \in { S_NICK, S_USER, S_CAP }

C5_ReturnsFirstNonCap ==
    LoopEntered =>
        /\ pc = "reqLoop" => C5_Passed(LoopStart + 1, NRead)
        /\ (pc = "failed" /\ NRead > LoopStart) =>
              /\ C5_Passed(LoopStart + 1, NRead - 1)
              /\ err = "ParseError" <=> ~ParsedOk(NRead)
              /\ err = "AssertionError" => C5_Passed(LoopStart + 1, NRead)
        /\ pc = "returned" =>
              /\ NRead > LoopStart
              /\ ret = Some(Msg(NRead))
              /\ Msg(NRead).command \notin { S_NICK, S_USER }
              /\ C5_Passed(LoopStart + 1, NRead - 1)

C5_Witness ==
    /\ InNegotiate
    /\ pc = "returned"
    /\ nick = Some(S_foo)
    /\ ret = Some(Message(EmptyTags, None, S_PING, << S_x >>))

\* ------------------------------------------------------------------
\* C6: a CAP whose first parameter is not REQ (CAP END in particular) that
\* the loop reads is handed to the caller: the call returns that message,
\* sends nothing for it and leaves acked_capabilities alone.  With no
\* capability advertised, a peer that writes CAP LS and then CAP END makes
\* negotiateCapabilities return Message({}, None, 'CAP', ['END']).
\* ------------------------------------------------------------------
C6_Step(m) ==
    (m.command = S_CAP /\ Len(m.params) > 0 /\ m.params[1] # S_REQ) =>
        /\ pc' = "returned"
        /\ ret' = Some(m)
        /\ sendLog' = sendLog
        /\ wire' = wire
        /\ acked_capabilities' = acked_capabilities

C6_EmptyCapLs ==
    (/\ InNegotiate /\ call.cap_ls /\ call.caps = << >>
     /\ NRead >= 2
     /\ arrived[1] = L_CAP_LS
     /\ arrived[2] = L_CAP_END) =>
        /\ pc = "returned"
        /\ NRead = 2
        /\ ret = Some(Message(EmptyTags, None, S_CAP, << S_END >>))

C6_CapEndReturned ==
    /\ [][ (ReadsInLoop /\ HeadParsed.ok) => C6_Step(HeadParsed.msg) ]_vars
    /\ []C6_EmptyCapLs

C6_Witness ==
    /\ InNegotiate /\ call.cap_ls /\ call.caps = << >>
    /\ arrived = << L_CAP_LS, L_CAP_END >>
    /\ pc = "returned"
    /\ ret = Some(Message(EmptyTags, None, S_CAP, << S_END >>))

\* ------------------------------------------------------------------
\* C7: a CAP without parameters, or a CAP REQ whose parameter count is not
\* 2, makes the step that reads it raise an assertion failure: nothing is
\* sent, acked_capabilities is unchanged, and once the call has failed no
\* further line is read.
\* ------------------------------------------------------------------
C7_Malformed(m) ==
    /\ m.command = S_CAP
    /\ \/ Len(m.params) = 0
       \/ (m.params[1] = S_REQ /\ Len(m.params) # 2)

C7_Step(m) ==
    C7_Malformed(m) =>
        /\ pc' = "failed"
        /\ err' = "AssertionError"
        /\ sendLog' = sendLog
        /\ wire' = wire
        /\ acked_capabilities' = acked_capabilities

C7_MalformedCapFails ==
    [][ /\ (ReadsInLoop /\ HeadParsed.ok) => C7_Step(HeadParsed.msg)
        /\ pc = "failed" => (pc' = "failed" /\ NRead' = NRead
                                /\ sendLog' = sendLog) ]_vars

C7_Witness ==
    /\ InNegotiate
    /\ pc = "failed"
    /\ err = "AssertionError"
    /\ NRead = 3
    /\ arrived[2] = L_REQ_both
    /\ arrived[3] = L_REQ_three
    /\ Len(sendLog) = 2
    /\ acked_capabilities = { S_sasl, S_message_tags }

\* ------------------------------------------------------------------
\* C8: lines are read in arrival order, each once.  A getMessage with a
\* filter predicate (userNickPredicate) returns the first message of its
\* reads on which the predicate is true; every message before it in the
\* call was one the predicate is false on; the returned message is the last
\* line consumed; the predicate has been called once per line read.
\* ------------------------------------------------------------------
C8_Skipped(lo, hi) ==
    \A i \in lo..hi :
        ParsedOk(i) /\ Msg(i).command \in { S_NICK, S_USER }

C9_TrueOnFirst ==
    /\ ParsedOk(msgBase + 1)
    /\ \/ IsNone(call.pred)
       \/ Msg(msgBase + 1).command \notin { S_NICK, S_USER }

C10_Expected(text) ==
    IF Len(text) >= 2 /\ text[Len(text) - 1] = "\r" /\ text[Len(text)] = "\n"
    THEN text
    ELSE text \o << "\r", "\n" >>

RECURSIVE C10_WireOf(_)
C10_WireOf(log) ==
    IF log = << >> THEN << >>
    ELSE C10_WireOf(SubSeq(log, 1, Len(log) - 1))
            \o C10_Expected(log[Len(log)].text)

C10_SendLineBytes ==
    wire = C10_WireOf(sendLog)

C10_Witness ==
    /\ Len(sendLog) = 2
    /\ sendLog[1].text = T_LS_both
    /\ sendLog[2].text = S_PING \o SP \o S_x \o CRLF
    /\ wire = T_LS_both \o CRLF \o S_PING \o SP \o S_x \o CRLF

\* ------------------------------------------------------------------
\* C17: the step of getMessage, of readCapLs or of the loop of
\* negotiateCapabilities that reads a line the parser rejects ends the call
\* with the parse error, with or without a filter predicate: the predicate
\* is not called on it, nothing is sent, nick, user and acked_capabilities
\* are left alone, and the failed call reads no later line.
\* ------------------------------------------------------------------
C17_Step ==
    (NRead' = NRead + 1 /\ ~ParsedOk(NRead + 1)) =>
        /\ pc' = "failed"
        /\ err' = "ParseError"
        /\ ret' = None
        /\ sendLog' = sendLog
        /\ nick' = nick
        /\ user' = user
        /\ acked_capabilities' = acked_capabilities
        /\ pc # "readCapLs" => predCalls' = predCalls

C17_ParseErrorPropagates ==
    [][ /\ C17_Step
        /\ pc = "failed" => (pc' = "failed" /\ err' = err /\ NRead' = NRead) ]_vars

C17_Witness ==
    /\ call.name = "getMessage" /\ ~IsNone(call.pred)
    /\ pc = "failed"
    /\ err = "ParseError"
    /\ NRead = msgBase + 1
    /\ arrived[NRead] = L_prefix_only
    /\ predCalls = 0
    /\ conn_file # << >>

\* ------------------------------------------------------------------
\* C19 (as the docstring words it): a getMessage given a filter predicate
\* returns the first message on which the predicate returned False, after
\* messages on which it returned True.
\* ------------------------------------------------------------------
\* what userNickPredicate answers on each line of the peer that parses
C19_PredOfLine ==
    [ l \in PeerLines |->
        IF ParsedPeerLine[l].ok
        THEN userNickPredicate(ParsedPeerLine[l].msg, None, None)
        ELSE [ raised |-> TRUE, result |-> FALSE, nick |-> None, user |-> None ] ]

C19_PredTrue(i) ==
    ~C19_PredOfLine[arrived[i]].raised /\ C19_PredOfLine[arrived[i]].result

C19_PredFalse(i) ==
    ~C19_PredOfLine[arrived[i]].raised /\ ~C19_PredOfLine[arrived[i]].result

C19_FilteredReturned ==
    /\ call.name = "getMessage"
    /\ ~IsNone(call.pred)
    /\ pc = "returned"

C11_AtEndOfStream ==
    /\ pc \in { "readCapLs", "reqLoop", "getMessage" }
    /\ eof
    /\ conn_file = << >>

C11_ClosedRaisesConnectionError ==
    [][ (C11_AtEndOfStream /\ (pc' # pc \/ err' # err \/ ret' # ret)) =>
            (pc' = "failed" /\ err' = "ConnectionError" /\ ret' = None) ]_vars

\* ------------------------------------------------------------------
\* C14: each keyword given (command, params, prefix, tags) must equal the
\* message's field or the assertion fails.  When they all do and a
\* subcommand or subparams is given, the assertion fails unless the message
\* has more than 2 parameters; with more than 2, params[1] is compared with
\* the subcommand given and params[2:] with the subparams given, each in
\* its own subTest: each mismatch is reported whether or not the other
\* comparison fails, so both are when both differ.
\* ------------------------------------------------------------------
C14_Called == call.name = "assertMessageEqual"

C14_KwargsEqual ==
    \A i \in 1..Len(call.kwargs) :
        CASE call.kwargs[i].key = "command" -> call.msg.command = call.kwargs[i].value
          [] call.kwargs[i].key = "params" -> call.msg.params = call.kwargs[i].value
          [] call.kwargs[i].key = "prefix" -> call.msg.prefix = call.kwargs[i].value
          [] call.kwargs[i].key = "tags" -> call.msg.tags = call.kwargs[i].value

C14_Mode == call.subcommand # None \/ call.subparams # None

C14_SubcommandDiffers ==
    /\ call.subcommand # None
    /\ call.msg.params[2] # call.subcommand[1]

C14_SubparamsDiffer ==
    /\ call.subparams # None
    /\ call.subparams[1] #
          [ i \in 1..(Len(call.msg.params) - 2) |-> call.msg.params[i + 2] ]

C18_OnlyTarget ==
    /\ C14_Called
    /\ call.target # None
    /\ call.subcommand = None
    /\ call.subparams = None

C18_TargetChecked ==
    (C18_OnlyTarget /\ pc = "returned" /\ ret = {}) =>
        /\ Len(call.msg.params) > 2
        /\ call.msg.params[1] = call.target[1]

\* ------------------------------------------------------------------
\* C16: parsing the serialization of a legal message yields a message whose
\* command, parameters, prefix and tags are those of the message.
\* ------------------------------------------------------------------
C16_RoundTrip ==
    (call.name = "serialize" /\ pc \notin { "setUp", "serialized" }) =>
        /\ pc = "returned"
        /\ ret # None
        /\ ret[1].command = call.msg.command
        /\ ret[1].params = call.msg.params
        /\ ret[1].prefix = call.msg.prefix
        /\ DOMAIN ret[1].tags = DOMAIN call.msg.tags
        /\ \A k \in DOMAIN call.msg.tags : ret[1].tags[k] = call.msg.tags[k]

C16_Witness ==
    /\ call.name = "serialize"
    /\ pc = "returned"
    /\ call.msg.params = << S_foo, COLON \o S_x >>
    /\ call.msg.prefix = Some(S_foo)
    /\ DOMAIN call.msg.tags = { S_id, S_k }
    /\ ret = Some(call.msg)
    /\ wire = << "@" >> \o serialize_tags(call.msg.tags, { S_id, S_k })
                \o << " ", ":", "f", "o", "o", " " >> \o call.msg.command
                \o << " ", "f", "o", "o", " ", ":", ":", "x" >>

\* ------------------------------------------------------------------
\* Vocabulary of the server-side properties
\* ------------------------------------------------------------------
\* the call has ended, by returning or by an exception
CallEnded == pc \in { "returned", "failed" }

IsSend(e, text) == e.dir = "send" /\ e.text = text
IsRecvOf(e, command) ==
    e.dir = "recv" /\ ParsedServerLine[e.text].ok
                   /\ ParsedServerLine[e.text].msg.command = command

\* the lines read from a connection, in order
RECURSIVE Recvs(_)
Recvs(log) ==
    IF log = << >> THEN << >>
    ELSE (IF log[1].dir = "recv" THEN << log[1].text >> ELSE << >>)
         \o Recvs(Tail(log))

\* the probe has been sent on the connection
ProbeSent(c) == \E i \in 1..Len(c.log) : IsSend(c.log[i], S_PING_foo)

\* a PONG has been read on the connection after the probe
PongAfterProbe(c) ==
    \E i \in 1..Len(c.log) : \E j \in (i + 1)..Len(c.log) :
        IsSend(c.log[i], S_PING_foo) /\ IsRecvOf(c.log[j], S_PONG)

\* ------------------------------------------------------------------
\* C12 (as claimed): assertDisconnected(client) sends the probe 'PING foo';
\* when it fails the probe has been sent and the client is still
\* registered, and when a PONG was read after the probe the failure is the
\* assertion failure.
\* ------------------------------------------------------------------
C12_ProbeThenPong ==
    (call.name = "assertDisconnected" /\ pc = "failed") =>
        /\ call.client \in DOMAIN clients
        /\ ProbeSent(conns[CallConn])
        /\ PongAfterProbe(conns[CallConn]) => err = "AssertionError"

\* ------------------------------------------------------------------
\* C13 (as claimed): assertDisconnected(client) returns normally when the
\* server has closed the client's connection and nothing is left to read
\* (the drain or the read after the probe raises a socket error and no PONG
\* can be seen), and the client is then no longer registered.
\* ------------------------------------------------------------------
C13_PassesWhenClosed ==
    (call.name = "assertDisconnected" /\ CallEnded) =>
        /\ pc = "returned" => call.client \notin DOMAIN clients
        /\ pc = "failed" =>
              ~(conns[CallConn].closed /\ conns[CallConn].inbuf = << >>)

\* ------------------------------------------------------------------
\* C15 (as claimed): addClient called without a name, when the keys of
\* clients are the integers of earlier such calls, registers the new client
\* under the lowest unused integer, counted from 1 as the tests do.
\* ------------------------------------------------------------------
C15_Lowest(keys) ==
    CHOOSE n \in 1..(Cardinality(keys) + 1) :
        /\ IntName(n) \notin keys
        /\ \A m \in 1..(n - 1) : IntName(m) \in keys

C15_LowestUnused ==
    [][ (/\ ncalls' = ncalls + 1
         /\ call'.name = "addClient"
         /\ IsNone(call'.given)
         /\ \A k \in DOMAIN clients : k[1] = "int") =>
            /\ pc' = "returned"
            /\ ret' = Some(IntName(C15_Lowest(DOMAIN clients)))
            /\ DOMAIN clients' =
                   DOMAIN clients \cup { IntName(C15_Lowest(DOMAIN clients)) } ]_vars

\* ------------------------------------------------------------------
\* C20: connectClient(nick) adds the client, sends NICK nick and then USER,
\* and reads; it sends nothing more until it has read a 001, sends
\* 'PING foo' right after the first 001 and nothing after that; it returns
\* at the first PONG read after the PING, not before.  The lines it has
\* read are the first lines the server wrote, in order, and the lines that
\* follow them are still unread.
\* ------------------------------------------------------------------
C20_InConnect ==
    /\ call.name = "connectClient"
    /\ err # "ValueError"

C20_Order(log) ==
    /\ Len(log) >= 2
    /\ IsSend(log[1], S_NICK \o SP \o call.nick)
    /\ IsSend(log[2], S_USER_line)
    /\ \A i \in 3..Len(log) :
          \/ log[i].dir = "recv"
          \/ /\ IsSend(log[i], S_PING_foo)
             /\ IsRecvOf(log[i - 1], S_001)
             /\ \A j \in 3..(i - 2) :
                   log[j].dir = "recv" /\ ~IsRecvOf(log[j], S_001)
    /\ \A i \in 3..(Len(log) - 1) :
          IsRecvOf(log[i], S_001) =>
              (IsSend(log[i + 1], S_PING_foo) \/ ProbeSent([ log |-> SubSeq(log, 1, i) ]))

C20_Registration ==
    C20_InConnect =>
        /\ call.client \in DOMAIN clients
        /\ CallConn = Len(conns)
        /\ \E c \in { conns[CallConn] } :
              /\ C20_Order(c.log)
              /\ pc = "connect001" => ~ProbeSent(c)
              /\ pc = "connectPONG" => (ProbeSent(c) /\ ~PongAfterProbe(c))
              /\ pc = "returned" =>
                    /\ IsRecvOf(c.log[Len(c.log)], S_PONG)
                    /\ ProbeSent(c)
                    /\ ~PongAfterProbe([ log |-> SubSeq(c.log, 1, Len(c.log) - 1) ])
              /\ Recvs(c.log) = SubSeq(c.srv, 1, Len(Recvs(c.log)))
              /\ c.inbuf = SubSeq(c.srv, Len(Recvs(c.log)) + 1, Len(c.srv))

C20_Witness ==
    /\ call.name = "connectClient"
    /\ pc = "returned"
    /\ call.client = IntName(2)
    /\ conns[2].log = << SendEvent(S_NICK \o SP \o S_foo), SendEvent(S_USER_line),
                         RecvEvent(L_PONG), RecvEvent(L_001),
                         SendEvent(S_PING_foo), RecvEvent(L_PONG) >>

\* ------------------------------------------------------------------
\* Vocabulary of C22: the reads that go through userNickPredicate
\* ------------------------------------------------------------------
\* the step takes a line that parses and hands it to userNickPredicate
C22_Filtered ==
    /\ \/ pc = "reqLoop"
       \/ pc = "getMessage" /\ ~IsNone(call.pred)
    /\ conn_file # << >>
    /\ conn_file' = Tail(conn_file)
    /\ HeadParsed.ok

C22_Failed == pc' = "failed" /\ err' = "AssertionError"

\* what the step does to self.nick and self.user: a NICK with one parameter
\* and a USER with four are recorded and skipped, a NICK or USER with another
\* count fails, everything else leaves both as they were.  With the initial
\* None this makes self.nick the parameter of the most recent NICK consumed.
C22_Records ==
    IF C22_Filtered /\ HeadParsed.msg.command = S_NICK
    THEN IF Len(HeadParsed.msg.params) = 1
         THEN /\ nick' = Some(HeadParsed.msg.params[1])
              /\ user' = user
              /\ pc' = pc
         ELSE C22_Failed /\ nick' = nick /\ user' = user
    ELSE IF C22_Filtered /\ HeadParsed.msg.command = S_USER
    THEN IF Len(HeadParsed.msg.params) = 4
         THEN /\ user' = Some(HeadParsed.msg.params)
              /\ nick' = nick
              /\ pc' = pc
         ELSE C22_Failed /\ nick' = nick /\ user' = user
    ELSE nick' = nick /\ user' = user

\* the target of the reply the step sends to a REQ
C22_Target(t) ==
    (ReadsInLoop /\ HeadParsed.ok /\ IsReq(HeadParsed.msg)) =>
        /\ SendsOne
        /\ \E r \in { SentReply } :
              /\ IsReply(r, S_ACK) \/ IsReply(r, S_NAK)
              /\ r.msg.params[1] = t

\* ------------------------------------------------------------------
\* C22 (as claimed): the target of every ACK/NAK reply is the nick of the
\* most recent NICK consumed before that REQ, '*' if none was consumed; NICK
\* with one parameter and USER with four update the recorded nick and user,
\* another count is an assertion failure, other commands leave both
\* unchanged.
\* ------------------------------------------------------------------
C22_TargetIsLastNick ==
    [][ /\ C22_Records
        /\ C22_Target(IF IsNone(nick) THEN S_STAR ELSE Val(nick)) ]_vars

\* ------------------------------------------------------------------
\* C22 (amended): as above, and the target is '*' also when the most recent
\* NICK consumed carried the empty string as its nick.
\* ------------------------------------------------------------------
C22_TargetIsLastNickOrStar ==
    [][ /\ C22_Records
        /\ C22_Target(IF IsNone(nick) \/ Val(nick) = << >> THEN S_STAR
                      ELSE Val(nick)) ]_vars

C22_Witness ==
    /\ InNegotiate
    /\ pc = "reqLoop"
    /\ arrived = << L_CAP_LS_302, L_NICK, L_REQ_both >>
    /\ NRead = 3
    /\ nick = Some(S_foo)
    /\ Len(sendLog) = 2
    /\ SentMsg(2).params = << S_foo, S_ACK, S_sasl \o SP \o S_message_tags >>

\* ------------------------------------------------------------------
\* C23: once the loop of a negotiateCapabilities call has been entered,
\* acked_capabilities holds advertised names only and is the union of the
\* requested sets of the REQs this call has answered with ACK so far, so on
\* return it is the union over all the ACKed REQs of the call; the REQs and
\* ACKs of earlier calls do not count, also with cap_ls=False.
\* ------------------------------------------------------------------
\* the lines of this call's loop that are REQs answered with an ACK
C23_Acked ==
    { i \in (LoopStart + 1)..NRead :
        /\ ParsedOk(i)
        /\ IsReq(Msg(i))
        /\ \E j \in (sendBase + 1)..Len(sendLog) :
              /\ sendLog[j].nread = i
              /\ IsReply(parse_message(sendLog[j].text), S_ACK) }

C23_AckedWithinAdvertised ==
    LoopEntered =>
        /\ acked_capabilities \subseteq Advertised
        /\ acked_capabilities = UNION { Requested(Msg(i)) : i \in C23_Acked }

C23_Witness ==
    /\ InNegotiate
    /\ ~call.cap_ls
    /\ pc = "reqLoop"
    /\ arrived = << L_CAP_LS, L_REQ_both, L_PING >>
    /\ acked_capabilities = {}
    /\ \E j \in 1..sendBase : IsReply(parse_message(sendLog[j].text), S_ACK)

\* ------------------------------------------------------------------
\* C24: in every state of the loop of negotiateCapabilities, the lines the
\* helper has sent since the loop started are the replies to the well-formed
\* REQs it has read, one for each and in their order; each is an ACK or a
\* NAK and was sent while its REQ was the last line read.
\* ------------------------------------------------------------------
\* the well-formed REQs the loop of this call has read
C24_Reqs ==
    { i \in (LoopStart + 1)..NRead : ParsedOk(i) /\ IsReq(Msg(i)) }

\* what the helper has sent since the loop of this call started
C24_LoopSends ==
    SubSeq(sendLog, sendBase + (IF call.cap_ls THEN 1 ELSE 0) + 1, Len(sendLog))

C24_OneReplyPerReq ==
    LoopEntered =>
        /\ Len(C24_LoopSends) = Cardinality(C24_Reqs)
        /\ \A k \in 1..Len(C24_LoopSends) :
              /\ C24_LoopSends[k].nread \in C24_Reqs
              /\ k > 1 => C24_LoopSends[k - 1].nread < C24_LoopSends[k].nread
              /\ \E r \in { parse_message(C24_LoopSends[k].text) } :
                    IsReply(r, S_ACK) \/ IsReply(r, S_NAK)

C24_Witness ==
    /\ InNegotiate
    /\ pc = "reqLoop"
    /\ arrived = << L_CAP_LS_302, L_REQ_unknown, L_REQ_both >>
    /\ NRead = 3
    /\ Len(sendLog) = 3
    /\ sendLog[2].nread = 2
    /\ SentMsg(2).params[2] = S_NAK
    /\ sendLog[3].nread = 3
    /\ SentMsg(3).params[2] = S_ACK

\* ------------------------------------------------------------------
\* C25 (as claimed): addClient never replaces the entry of a client that is
\* still registered.  A name chosen by addClient is not a key of clients; an
\* entry of clients changes or goes only by a removeClient or a passing
\* assertDisconnected on its name, or in tearDown; and after tearDown every
\* connection that was opened has been disconnected, unless the server had
\* closed it.
\* ------------------------------------------------------------------
C25_Adds ==
    /\ ncalls' = ncalls + 1
    /\ call'.name \in { "addClient", "connectClient" }

C25_Deletes(k) ==
    \/ /\ ncalls' = ncalls + 1
       /\ call'.name \in { "removeClient", "assertDisconnected" }
       /\ call'.client = k
       /\ pc' = "returned"
    \/ pc' = "tornDown"

C25_NeverReplaces ==
    [][ /\ (C25_Adds /\ IsNone(call'.given) /\ pc' # "failed") =>
               call'.client \notin DOMAIN clients
        /\ \A k \in DOMAIN clients :
               (k \notin DOMAIN clients' \/ clients'[k] # clients[k]) =>
                   C25_Deletes(k)
        /\ pc' = "tornDown" =>
               \A i \in 1..Len(conns') :
                   ~conns'[i].open \/ conns'[i].closed ]_vars

\* ------------------------------------------------------------------
\* C26 (as claimed): rehash stores and writes the new configuration before
\* it sends REHASH; it sends REHASH only after the operator client has
\* registered (001 read, PING sent, PONG read) and right after OPER; it ends
\* with QUIT and assertDisconnected, so that once the server has closed the
\* operator's connection upon the QUIT rehash returns normally with the
\* operator client out of the registry; the clients registered before stay
\* registered throughout.
\* ------------------------------------------------------------------
C26_InRehash == call.name = "rehash"

\* the operator's connection: the one rehash has opened
C26_Log == conns[Len(conns)].log

C26_Sent(text) == \E i \in 1..Len(C26_Log) : IsSend(C26_Log[i], text)

C26_Order ==
    /\ config = call.config
    /\ config_file = call.config
    /\ \A i \in 1..Len(C26_Log) :
          IsSend(C26_Log[i], S_REHASH) =>
              /\ i > 1
              /\ IsSend(C26_Log[i - 1], S_OPER_line)
              /\ PongAfterProbe([ log |-> SubSeq(C26_Log, 1, i - 2) ])
    /\ \A i \in 1..Len(C26_Log) :
          IsSend(C26_Log[i], S_QUIT) =>
              /\ i = Len(C26_Log)
              /\ C26_Sent(S_REHASH)

C26_Ends ==
    (CallEnded /\ C26_Sent(S_QUIT) /\ conns[Len(conns)].closed) =>
        /\ pc = "returned"
        /\ call.client \notin DOMAIN clients

C26_RehashThenGone ==
    /\ [](C26_InRehash => (C26_Order /\ C26_Ends))
    /\ [][ (call'.name = "rehash" /\ pc' # "returned") =>
               \A k \in DOMAIN clients \ { StrName(S_operator_for_rehash) } :
                   k \in DOMAIN clients' /\ clients'[k] = clients[k] ]_vars

\* ------------------------------------------------------------------
\* Vocabulary of C21: what the getCapLs in progress has read
\* ------------------------------------------------------------------
\* the messages it has read, in order, the NOTICEs left out
C21_Msgs ==
    SelectSeq(
        [ i \in 1..(Len(conns[CallConn].log) - call.logBase) |->
            ParsedCapLsLine[conns[CallConn].log[call.logBase + i].text].msg ],
        notNotice)

\* a CAP LS reply, a continuation line of one, a last line of one
C21_IsCapLs(m) ==
    m.command = S_CAP /\ Len(m.params) > 2 /\ m.params[2] = S_LS
C21_IsContinuation(m) ==
    m.command = S_CAP /\ Len(m.params) > 3 /\ m.params[3] = S_STAR
C21_IsLast(m) ==
    m.command = S_CAP /\ Len(m.params) > 2 /\ m.params[3] # S_STAR

\* the capability tokens of the lines, in arrival order
RECURSIVE C21_Tokens(_)
C21_Tokens(ms) ==
    IF ms = << >> THEN << >>
    ELSE split(IF C21_IsContinuation(ms[1]) THEN ms[1].params[4]
               ELSE ms[1].params[3])
         \o C21_Tokens(Tail(ms))

\* ------------------------------------------------------------------
\* C21: getCapLs skips NOTICEs; while it reads, every other message it has
\* read is a continuation line and caps holds their tokens in arrival
\* order; it returns at the first line that is no continuation, with the
\* tokens of all the lines read, as a dict or, with as_list, as the list; a
\* message that is no CAP LS reply is an assertion failure, one that ends
\* the call or one recorded by the subcommand subTest.
\* ------------------------------------------------------------------
C21_GetCapLs ==
    call.name = "getCapLs" =>
        LET ms == C21_Msgs
            n == Len(ms)
        IN  /\ \A i \in 1..Len(conns[CallConn].log) :
                  i > call.logBase => conns[CallConn].log[i].dir = "recv"
            /\ pc = "getCapLs" =>
                  /\ \A i \in 1..n : C21_IsContinuation(ms[i])
                  /\ call.caps = C21_Tokens(ms)
            /\ pc = "returned" =>
                  /\ n >= 1
                  /\ \A i \in 1..(n - 1) : C21_IsContinuation(ms[i])
                  /\ C21_IsLast(ms[n])
                  /\ notNotice(ParsedCapLsLine[
                         conns[CallConn].log[Len(conns[CallConn].log)].text].msg)
                  /\ ret = Some(IF call.as_list THEN C21_Tokens(ms)
                                ELSE cap_list_to_dict(C21_Tokens(ms)))
            /\ \A i \in 1..n :
                  ~C21_IsCapLs(ms[i]) =>
                      \/ i = n /\ pc = "failed" /\ err = "AssertionError"
                      \/ S_subcommand \in call.failures
            /\ (pc = "failed" /\ err = "AssertionError") =>
                  n >= 1 /\ ~C21_IsCapLs(ms[n])
            /\ call.failures # {} => \E i \in 1..n : ~C21_IsCapLs(ms[i])

C21_Witness ==
    /\ call.name = "getCapLs"
    /\ pc = "returned"
    /\ ~call.as_list
    /\ Recvs(conns[CallConn].log) = << L_NOTICE, L_LS_more, L_LS_last >>
    /\ call.failures = {}
    /\ ret = Some(cap_list_to_dict(<< S_sasl_PLAIN, S_x, S_message_tags >>))
    /\ Val(ret)[S_sasl] = Some(<< "P", "L", "A", "I", "N" >>)

=============================================================================
